---- MODULE Spec2Model ----
(***************************************************************************)
(* Time-column parsing of campbellsciparser (cr.py and devices/*.py).      *)
(*                                                                         *)
(* Python strings are modelled as sequences of one-character strings, so   *)
(* that slicing, concatenation and ','.join are computed as the code       *)
(* computes them.  A column key is a record that is either a string name   *)
(* or an integer index; None is a third kind of the same record.           *)
(***************************************************************************)
EXTENDS Integers, Sequences, FiniteSets, TLC

VARIABLES
    hm_arg,     \* argument of the _parse_hourminute call
    hm_ret,     \* outcome of the _parse_hourminute call
    rs_dev,     \* resolver variant that is called
    rs_lib,     \* time_format_args_library the resolver works with
    rs_vals,    \* *time_values given to the resolver
    rs_ret,     \* outcome of the resolver call
    data,       \* the DataSet handed to parse_time (its rows, as the caller sees them)
    pt_args,    \* arguments of the parse_time call
    pt_ret,     \* outcome of the parse_time call
    tv_args,    \* arguments of the _parse_time_values call
    tv_ret,     \* outcome of the _parse_time_values call
    tv_local,   \* outcome of the same call made with to_utc=False
    tv_again,   \* outcome of converting the datetime returned to UTC once more
    csv_file,   \* the file at the output path of export_to_csv
    csv_data,   \* the DataSet that is exported
    csv_log,    \* the export_to_csv calls made so far, oldest first
    csv_read,   \* outcome of read_table_data on the output path
    fl_data,    \* the DataSet handed to filter_mixed_array_data
    fl_ids,     \* the *array_ids of the call
    fl_ret,     \* outcome of the filter_mixed_array_data call
    ma_file,    \* the mixed-array file that is read
    ma_fix,     \* fix_floats of the calls
    ma_names,   \* array_id_names of the read_array_ids_data call
    ma_mixed,   \* outcome of read_mixed_array_data
    ma_split,   \* outcome of read_array_ids_data
    ex_data,    \* the dict of DataSet handed to export_array_ids_to_csv
    ex_info,    \* array_ids_info of the call
    ex_ret,     \* outcome of the call and the output files after it
    uc_data,    \* the DataSet handed to update_column_names
    uc_names,   \* column_names of the call
    uc_flags,   \* match_row_lengths and get_mismatched_row_lengths of the call
    uc_ret,     \* outcome of the update_column_names call
    ec_data,    \* the time-converted DataSet handed to extract_columns_data
    ec_names,   \* *column_names of the call
    ec_range,   \* **time_range of the call
    ec_ret,     \* outcome of the extract_columns_data call
    ds_rows,    \* the elements of the DataSet ds
    ds_prev,    \* the elements of ds before the last operation
    ds_last,    \* the last operation on ds and its status
    ds_ops,     \* number of operations made
    ct_data,    \* the DataSet handed to convert_time_zone, as the caller sees it
    ct_before,  \* the rows of that DataSet before the call
    ct_args,    \* time_column and to_time_zone of the call
    ct_ret,     \* outcome of the convert_time_zone call
    po_data,    \* a data set equal to data before the first parse_time call
    po_columns, \* time_columns of the second parse_time call
    po_ret,     \* outcome of the second parse_time call
    gt_args,    \* time zone and library of a CRGeneric parser, and the arguments of its _parse_time_values call
    gt_ret,     \* outcome of CRGeneric._parse_time_values
    xd_before   \* the rows of the exported DataSet before the first export_to_csv call

hmVars == <<hm_arg, hm_ret>>

rsVars == <<rs_dev, rs_lib, rs_vals, rs_ret>>

ptVars == <<data, pt_args, pt_ret>>

tvVars == <<tv_args, tv_ret, tv_local, tv_again>>

csvVars == <<csv_file, csv_data, csv_log, csv_read>>

flVars == <<fl_data, fl_ids, fl_ret>>

maVars == <<ma_file, ma_fix, ma_names, ma_mixed, ma_split>>

exVars == <<ex_data, ex_info, ex_ret>>

ucVars == <<uc_data, uc_names, uc_flags, uc_ret>>

ecVars == <<ec_data, ec_names, ec_range, ec_ret>>

dsVars == <<ds_rows, ds_prev, ds_last, ds_ops>>

ctVars == <<ct_data, ct_before, ct_args, ct_ret>>

poVars == <<po_data, po_columns, po_ret>>

gtVars == <<gt_args, gt_ret>>

xdVars == <<xd_before>>

vars == <<hmVars, rsVars, ptVars, tvVars, csvVars, flVars, maVars, exVars, ucVars, ecVars, dsVars, ctVars, poVars, gtVars, xdVars>>

(***************************************************************************)
(* Bounds of the model.                                                    *)
(***************************************************************************)
MaxLen == 5             \* longest Hour/Minute argument over the small alphabet
MaxLib == 2             \* longest format library given to a resolver
MaxVals == 2            \* most raw time values given to a resolver
MaxRows == 2            \* most rows of a data set
MaxCols == 3            \* most columns of a row
MaxTimeColumns == 2     \* longest time_columns list
MaxCsvRows == 2         \* most rows of an exported data set
MaxCsvCols == 2         \* most columns of an exported row
MaxCalls == 2           \* most export_to_csv calls on one output path
MaxMixedRows == 3       \* most rows of a mixed-array data set
MaxArrayIds == 1        \* most array ids given to the filter
MaxLoggerVals == 4      \* most time values of one logger record given to a resolver
MaxTokenLen == 4        \* longest token of a mixed-array line
MaxFileLines == 3       \* most lines of a mixed-array file
MaxNames == 2           \* most items of an array_id_names lookup table
MaxGroups == 2          \* most array ids of an array id separated data set
MaxInfos == 2           \* most items of array_ids_info
MaxUcRows == 2          \* most rows of a data set whose columns are renamed
MaxUcCols == 2          \* most columns of such a row
MaxColumnNames == 2     \* longest column_names list
MaxEcRows == 2          \* most rows of a data set columns are extracted from
MaxDsOps == 3           \* most operations on a DataSet
MaxDsRows == 2          \* most elements given to the DataSet constructor
MaxOrderColumns == 3     \* longest time_columns list of the two calls compared, and columns of their rows

(***************************************************************************)
(* Python strings.                                                         *)
(***************************************************************************)
Digits == <<"0", "1", "2", "3", "4", "5", "6", "7", "8", "9">>

DigitChars == {Digits[i] : i \in 1..10}

IsDigitString(s) == \A i \in 1..Len(s) : s[i] \in DigitChars

\* s[:n]
FirstN(s, n) == SubSeq(s, 1, IF n < Len(s) THEN n ELSE Len(s))

\* s[-n:]
LastN(s, n) == SubSeq(s, IF Len(s) > n THEN Len(s) - n + 1 ELSE 1, Len(s))

\* sep.join(parts)
RECURSIVE Join(_, _)
Join(parts, sep) ==
    IF Len(parts) = 0 THEN <<>>
    ELSE IF Len(parts) = 1 THEN parts[1]
    ELSE parts[1] \o sep \o Join(Tail(parts), sep)

\* the value of one digit character
DigitValue(c) == (CHOOSE i \in 1..10 : Digits[i] = c) - 1

\* int(s) of a digit string
RECURSIVE ToInt(_)
ToInt(s) ==
    IF Len(s) = 0 THEN 0
    ELSE 10 * ToInt(SubSeq(s, 1, Len(s) - 1)) + DigitValue(s[Len(s)])

\* str(n) of a natural number
RECURSIVE Render(_)
Render(n) ==
    IF n < 10 THEN <<Digits[n + 1]>>
    ELSE Render(n \div 10) \o <<Digits[(n % 10) + 1]>>

\* all strings over alphabet of length at most n
RECURSIVE StringsUpTo(_, _)
StringsUpTo(alphabet, n) ==
    IF n = 0 THEN {<<>>}
    ELSE LET shorter == StringsUpTo(alphabet, n - 1)
         IN  shorter \cup {s \o <<c>> : s \in shorter, c \in alphabet}

\* all sequences over S of length at most n
RECURSIVE SeqsUpTo(_, _)
SeqsUpTo(S, n) ==
    IF n = 0 THEN {<<>>}
    ELSE LET shorter == SeqsUpTo(S, n - 1)
         IN  shorter \cup {Append(s, x) : s \in shorter, x \in S}

(***************************************************************************)
(* Format tokens used by the parsers.                                      *)
(***************************************************************************)
TokY == <<"%", "Y">>
Toky == <<"%", "y">>
TokJ == <<"%", "j">>
TokHM == <<"%", "H", "%", "M">>
TokCR1000 == <<"%", "Y", "-", "%", "m", "-", "%", "d", " ",
               "%", "H", ":", "%", "M", ":", "%", "S">>
Comma == <<",">>

(***************************************************************************)
(* cr._parse_hourminute (the same code as CR10Parser._parse_hourminute).   *)
(***************************************************************************)
Returned(v) == [status |-> "ok", value |-> v]

Raised(e) == [status |-> e, value |-> <<>>]

NotCalled == [status |-> "none", value |-> <<>>]

\* the branch for a two-character argument written as if it were an hour
HourMinuteLen2AsHour(hour_minute_str) == hour_minute_str \o <<"0", "0">>

\* the first branch guarding on "at most one character"
HourMinuteShortGuard(hour_minute_str) == Len(hour_minute_str) <= 1

HourMinuteLen1(hour_minute_str) == Len(hour_minute_str) = 1

HourMinuteLen2(hour_minute_str) == <<"0", "0">> \o LastN(hour_minute_str, 2)

_parse_hourminute(hour_minute_str) ==
    IF HourMinuteLen1(hour_minute_str)
        THEN Returned(<<"0", "0", "0">> \o hour_minute_str)
    ELSE IF Len(hour_minute_str) = 2
        THEN Returned(HourMinuteLen2(hour_minute_str))
    ELSE IF Len(hour_minute_str) = 3
        THEN LET hour == FirstN(hour_minute_str, 1)
                 minute == LastN(hour_minute_str, 2)
             IN  Returned(<<"0">> \o hour \o minute)
    ELSE IF Len(hour_minute_str) = 4
        THEN LET hour == FirstN(hour_minute_str, 2)
                 minute == LastN(hour_minute_str, 2)
             IN  Returned(hour \o minute)
    ELSE Raised("TimeColumnValueError")

(***************************************************************************)
(* The resolvers: cr._parse_custom_time_formats and the                    *)
(* _parse_custom_time_format methods of the device parsers.                *)
(***************************************************************************)
ResolverReturned(found_time_format_args, found_time_values) ==
    [status |-> "ok",
     parsed_time_format |-> Join(found_time_format_args, Comma),
     parsed_time |-> Join(found_time_values, Comma),
     found_time_format_args |-> found_time_format_args,
     found_time_values |-> found_time_values]

ResolverRaised(e) ==
    [status |-> e, parsed_time_format |-> <<>>, parsed_time |-> <<>>,
     found_time_format_args |-> <<>>, found_time_values |-> <<>>]

Min(a, b) == IF a < b THEN a ELSE b

\* zip that loses the last pair
ZipDropLast(xs, ys) ==
    [i \in 1..(IF Min(Len(xs), Len(ys)) > 0 THEN Min(Len(xs), Len(ys)) - 1 ELSE 0)
        |-> <<xs[i], ys[i]>>]

\* zip(xs, ys)
Zip(xs, ys) == [i \in 1..Min(Len(xs), Len(ys)) |-> <<xs[i], ys[i]>>]

\* needle in haystack, for strings
IsSubstring(needle, haystack) ==
    \E i \in 0..Len(haystack) :
        /\ i + Len(needle) <= Len(haystack)
        /\ SubSeq(haystack, i + 1, i + Len(needle)) = needle

\* the test written as "format_arg in '%H%M'"
IsHourMinuteTokenBySubstring(format_arg) == IsSubstring(format_arg, TokHM)

\* format_arg == '%H%M'
IsHourMinuteToken(format_arg) == format_arg = TokHM

\* The loop of cr._parse_custom_time_formats over the zipped pairs, from pair i on.
RECURSIVE ParseCustomLoop(_, _, _, _)
ParseCustomLoop(pairs, i, found_time_format_args, found_time_values) ==
    IF i > Len(pairs)
        THEN ResolverReturned(found_time_format_args, found_time_values)
    ELSE LET format_arg == pairs[i][1]
             time_arg == pairs[i][2]
         IN  IF IsHourMinuteToken(format_arg)
                 THEN LET decoded == _parse_hourminute(time_arg)
                      IN  IF decoded.status # "ok"
                              THEN ResolverRaised(decoded.status)
                          ELSE ParseCustomLoop(pairs, i + 1,
                                   Append(found_time_format_args, format_arg),
                                   Append(found_time_values, decoded.value))
             ELSE ParseCustomLoop(pairs, i + 1,
                      Append(found_time_format_args, format_arg),
                      Append(found_time_values, time_arg))

_parse_custom_time_formats(time_format_args_library, time_values) ==
    ParseCustomLoop(Zip(time_format_args_library, time_values), 1, <<>>, <<>>)

\* CRGeneric._parse_custom_time_format: no custom token is handled
CRGeneric_parse_custom_time_format(time_format_args_library, time_values) ==
    LET pairs == Zip(time_format_args_library, time_values)
    IN  ResolverReturned([i \in 1..Len(pairs) |-> pairs[i][1]],
                         [i \in 1..Len(pairs) |-> pairs[i][2]])

\* CR10Parser._parse_custom_time_format (inherited by CR10XParser)
CR10_parse_custom_time_format(time_format_args_library, time_values) ==
    ParseCustomLoop(Zip(time_format_args_library, time_values), 1, <<>>, <<>>)

\* a CR1000 resolver that takes '' for a missing value
CR1000_parse_custom_time_format_default(time_format_args_library, time_values) ==
    IF Len(time_format_args_library) = 0 THEN ResolverRaised("IndexError")
    ELSE IF Len(time_values) = 0
        THEN [status |-> "ok",
              parsed_time_format |-> time_format_args_library[1],
              parsed_time |-> <<>>,
              found_time_format_args |-> <<time_format_args_library[1]>>,
              found_time_values |-> <<>>]
    ELSE [status |-> "ok",
          parsed_time_format |-> time_format_args_library[1],
          parsed_time |-> time_values[1],
          found_time_format_args |-> <<time_format_args_library[1]>>,
          found_time_values |-> <<time_values[1]>>]

\* CR1000Parser._parse_custom_time_format
CR1000_parse_custom_time_format(time_format_args_library, time_values) ==
    IF Len(time_format_args_library) = 0 \/ Len(time_values) = 0
        THEN ResolverRaised("IndexError")
    ELSE [status |-> "ok",
          parsed_time_format |-> time_format_args_library[1],
          parsed_time |-> time_values[1],
          found_time_format_args |-> <<time_format_args_library[1]>>,
          found_time_values |-> <<time_values[1]>>]

\* device.CR10XParser._parse_hourminute: the time as HH:MM with its format
DeviceCR10X_parse_hourminute(hour_minute_str) ==
    IF Len(hour_minute_str) = 1
        THEN Returned(<<"0", "0", ":", "0">> \o hour_minute_str)
    ELSE IF Len(hour_minute_str) = 2
        THEN Returned(<<"0", "0", ":">> \o LastN(hour_minute_str, 2))
    ELSE IF Len(hour_minute_str) = 3
        THEN Returned(<<"0">> \o FirstN(hour_minute_str, 1) \o <<":">>
                      \o LastN(hour_minute_str, 2))
    ELSE IF Len(hour_minute_str) = 4
        THEN Returned(FirstN(hour_minute_str, 2) \o <<":">> \o LastN(hour_minute_str, 2))
    ELSE Raised("ValueError")

TokHourMinute == <<"H", "o", "u", "r", "/", "M", "i", "n", "u", "t", "e">>

TokHColonM == <<"%", "H", ":", "%", "M">>

\* the loop of device.CR10XParser._parse_custom_time_format, for at most three
\* values: the third value is decoded and its token replaced
DeviceCR10XLoop(time_format_args_library, time_values, decoded) ==
    IF Len(time_values) > Len(time_format_args_library) THEN ResolverRaised("IndexError")
    ELSE IF Len(time_values) < 3
        THEN ResolverReturned(SubSeq(time_format_args_library, 1, Len(time_values)),
                              time_values)
    ELSE IF decoded.status # "ok" THEN ResolverRaised(decoded.status)
    ELSE ResolverReturned(
             <<time_format_args_library[1], time_format_args_library[2], TokHColonM>>,
             <<time_values[1], time_values[2], decoded.value>>)

\* device.CR10XParser._parse_custom_time_format
DeviceCR10X_parse_custom_time_format(time_format_args_library, time_values) ==
    IF Len(time_values) > 3 THEN ResolverRaised("UnsupportedTimeFormatError")
    ELSE DeviceCR10XLoop(time_format_args_library, time_values,
             IF Len(time_values) = 3 THEN DeviceCR10X_parse_hourminute(time_values[3])
             ELSE NotCalled)

Constructed(library) == [status |-> "ok", library |-> library]

ConstructionRaised(e) == [status |-> e, library |-> <<>>]

\* The parser constructed with a time zone and the library given, and the
\* library it works with.  devices.cr10x.CR10XParser.__init__ takes a time
\* zone only, so that a library argument is a TypeError; for "cr" the
\* library is the argument of the module's function.
ConstructLibrary(dev, time_format_args_library) ==
    CASE dev = "CR10" ->
            Constructed(IF Len(time_format_args_library) = 0
                            THEN <<Toky, TokJ, TokHM>> ELSE time_format_args_library)
      [] dev = "CR10X" -> ConstructionRaised("TypeError")
      [] dev = "device.CR10X" ->
            Constructed(IF Len(time_format_args_library) = 0
                            THEN <<TokY, TokJ, TokHourMinute>> ELSE time_format_args_library)
      [] dev = "CR1000" ->
            Constructed(IF Len(time_format_args_library) = 0
                            THEN <<TokCR1000>> ELSE time_format_args_library)
      [] OTHER -> Constructed(time_format_args_library)

\* The parser constructed with a time zone alone: the library argument is
\* None, which the constructors treat as they treat an empty list
DefaultLibrary(dev) ==
    IF dev = "CR10X" THEN Constructed(<<TokY, TokJ, TokHM>>)
    ELSE ConstructLibrary(dev, <<>>)

Resolve(dev, time_format_args_library, time_values) ==
    CASE dev = "cr" -> _parse_custom_time_formats(time_format_args_library, time_values)
      [] dev = "CRGeneric" ->
            CRGeneric_parse_custom_time_format(time_format_args_library, time_values)
      [] dev \in {"CR10", "CR10X"} ->
            CR10_parse_custom_time_format(time_format_args_library, time_values)
      [] dev = "CR1000" ->
            CR1000_parse_custom_time_format(time_format_args_library, time_values)
      [] dev = "device.CR10X" ->
            DeviceCR10X_parse_custom_time_format(time_format_args_library, time_values)

(***************************************************************************)
(* Dates and times: datetime.datetime, datetime.strptime and the pytz      *)
(* operations the parsers call.                                            *)
(*                                                                         *)
(* A datetime is a record of its wall-clock fields, whether it is aware,   *)
(* its UTC offset and the name of its tzinfo.  The offset is held as whole *)
(* minutes (utcoffset) and what is left of it, in seconds and              *)
(* microseconds, all three with the sign of the offset.                    *)
(***************************************************************************)
Datetime(year, month, day, hour, minute, second) ==
    [year |-> year, month |-> month, day |-> day,
     hour |-> hour, minute |-> minute, second |-> second, microsecond |-> 0,
     aware |-> FALSE, utcoffset |-> 0, utcoffset_second |-> 0,
     utcoffset_microsecond |-> 0, tz |-> "naive"]

NoDatetime == [year |-> 0, month |-> 0, day |-> 0, hour |-> 0, minute |-> 0, second |-> 0,
               microsecond |-> 0, aware |-> FALSE, utcoffset |-> 0, utcoffset_second |-> 0,
               utcoffset_microsecond |-> 0, tz |-> "none"]

IsLeap(year) == year % 4 = 0 /\ (year % 100 # 0 \/ year % 400 = 0)

DaysInMonth(year, month) ==
    IF month = 2 THEN (IF IsLeap(year) THEN 29 ELSE 28)
    ELSE IF month \in {4, 6, 9, 11} THEN 30 ELSE 31

DaysBeforeYear(year) ==
    LET y == year - 1 IN y * 365 + (y \div 4) - (y \div 100) + (y \div 400)

RECURSIVE DaysBeforeMonth(_, _)
DaysBeforeMonth(year, month) ==
    IF month = 1 THEN 0
    ELSE DaysBeforeMonth(year, month - 1) + DaysInMonth(year, month - 1)

\* date(year, month, day).toordinal()
ToOrdinal(year, month, day) == DaysBeforeYear(year) + DaysBeforeMonth(year, month) + day

\* date.fromordinal(n), for an ordinal within a year of year `near`
FromOrdinal(n, near) ==
    LET year == CHOOSE y \in (near - 1)..(near + 1) :
                    DaysBeforeYear(y) < n /\ n <= DaysBeforeYear(y + 1)
        rest == n - DaysBeforeYear(year)
        month == CHOOSE m \in 1..12 :
                    /\ DaysBeforeMonth(year, m) < rest
                    /\ rest <= DaysBeforeMonth(year, m) + DaysInMonth(year, m)
    IN  [year |-> year, month |-> month, day |-> rest - DaysBeforeMonth(year, month)]

\* The directives of the format strings drawn here, each with the alternatives of
\* its regular expression in the order in which they are tried.
D09 == DigitChars
D19 == DigitChars \ {"0"}
D05 == {"0", "1", "2", "3", "4", "5"}

\* [+-]\d\d:?[0-5]\d, with or without the colon
ZHoursMinutes(colon) ==
    <<{"+", "-"}, D09, D09>> \o (IF colon THEN <<{":"}>> ELSE <<>>) \o <<D05, D09>>

\* :?[0-5]\d, with or without the colon
ZSeconds(colon) == (IF colon THEN <<{":"}>> ELSE <<>>) \o <<D05, D09>>

\* \.\d{n}
ZFraction(n) == <<{"."}>> \o [i \in 1..n |-> D09]

\* (:?[0-5]\d(\.\d{1,6})?)? after the hours and minutes, the longer
\* alternatives first
ZAfterMinutes(head) ==
    [k \in 1..15 |->
        IF k = 15 THEN head
        ELSE head \o ZSeconds(k <= 7)
                  \o (IF k % 7 = 0 THEN <<>> ELSE ZFraction(7 - (k % 7)))]

\* [+-]\d\d:?[0-5]\d(:?[0-5]\d(\.\d{1,6})?)?|(?-i:Z)
ZAlternatives ==
    ZAfterMinutes(ZHoursMinutes(TRUE)) \o ZAfterMinutes(ZHoursMinutes(FALSE)) \o << <<{"Z"}>> >>

DirectiveAlternatives ==
    [x \in {"d", "H", "j", "m", "M", "S", "y", "Y", "z"} |->
        CASE x = "d" -> << <<{"3"}, {"0", "1"}>>, <<{"1", "2"}, D09>>, <<{"0"}, D19>>,
                           <<D19>>, <<{" "}, D19>> >>
          [] x = "H" -> << <<{"2"}, {"0", "1", "2", "3"}>>, <<{"0", "1"}, D09>>, <<D09>> >>
          [] x = "j" -> << <<{"3"}, {"6"}, {"0", "1", "2", "3", "4", "5", "6"}>>,
                           <<{"3"}, {"0", "1", "2", "3", "4", "5"}, D09>>,
                           <<{"1", "2"}, D09, D09>>, <<{"0"}, D19, D09>>,
                           <<{"0"}, {"0"}, D19>>, <<D19, D09>>, <<{"0"}, D19>>, <<D19>> >>
          [] x = "m" -> << <<{"1"}, {"0", "1", "2"}>>, <<{"0"}, D19>>, <<D19>> >>
          [] x = "M" -> << <<{"0", "1", "2", "3", "4", "5"}, D09>>, <<D09>> >>
          [] x = "S" -> << <<{"6"}, {"0", "1"}>>, <<{"0", "1", "2", "3", "4", "5"}, D09>>,
                           <<D09>> >>
          [] x = "y" -> << <<D09, D09>> >>
          [] x = "Y" -> << <<D09, D09, D09, D09>> >>
          [] x = "z" -> ZAlternatives]

KnownDirectives == DOMAIN DirectiveAlternatives

NoFields == [x \in KnownDirectives |-> <<>>]

\* The ASCII characters that \s matches: blank, \t, \n, \r, \f, \v and the
\* separators \x1c..\x1f.  The strings of this module are ASCII strings.
Whitespace == {" ", "\t", "\n", "\r", "\f", "", "", "", "", ""}

AsciiUppercase == <<"A", "B", "C", "D", "E", "F", "G", "H", "I", "J", "K", "L", "M",
                    "N", "O", "P", "Q", "R", "S", "T", "U", "V", "W", "X", "Y", "Z">>

AsciiLowercase == <<"a", "b", "c", "d", "e", "f", "g", "h", "i", "j", "k", "l", "m",
                    "n", "o", "p", "q", "r", "s", "t", "u", "v", "w", "x", "y", "z">>

\* ch.lower()
LowerChar(ch) ==
    IF \E n \in 1..26 : AsciiUppercase[n] = ch
        THEN AsciiLowercase[CHOOSE n \in 1..26 : AsciiUppercase[n] = ch]
    ELSE ch

\* a character of the pattern against a character of the data under re.IGNORECASE
MatchesIgnoringCase(pattern_ch, data_ch) == LowerChar(pattern_ch) = LowerChar(data_ch)

\* a named group of the pattern is defined twice
GroupRedefined(items) ==
    \E k, n \in 1..Len(items) : k < n /\ items[k].kind = "dir" /\ items[k] = items[n]

\* TimeRE.pattern and re.compile: the format string as the items of its regular
\* expression.  Every run of whitespace becomes one \s+.  A stray '%' or an
\* unknown directive anywhere in the format is a ValueError, raised while the
\* pattern is built; a directive used twice is a group defined twice, which
\* re.compile reports as re.error once the pattern is built.
RECURSIVE FormatItems(_, _, _)
FormatItems(format, i, items) ==
    IF i > Len(format)
        THEN IF GroupRedefined(items) THEN [ok |-> "re.error", items |-> <<>>]
             ELSE [ok |-> "ok", items |-> items]
    ELSE IF format[i] = "%"
        THEN IF i = Len(format) THEN [ok |-> "ValueError", items |-> <<>>]
             ELSE IF format[i + 1] = "%"
                 THEN FormatItems(format, i + 2, Append(items, [kind |-> "lit", ch |-> "%"]))
             ELSE IF format[i + 1] \notin KnownDirectives
                 THEN [ok |-> "ValueError", items |-> <<>>]
             ELSE FormatItems(format, i + 2,
                              Append(items, [kind |-> "dir", ch |-> format[i + 1]]))
    ELSE IF format[i] \in Whitespace
        THEN IF Len(items) > 0 /\ items[Len(items)].kind = "ws"
                 THEN FormatItems(format, i + 1, items)
             ELSE FormatItems(format, i + 1, Append(items, [kind |-> "ws", ch |-> " "]))
    ELSE FormatItems(format, i + 1, Append(items, [kind |-> "lit", ch |-> format[i]]))

AlternativeMatches(alt, data_string, pos) ==
    /\ pos + Len(alt) - 1 <= Len(data_string)
    /\ \A k \in 1..Len(alt) : data_string[pos + k - 1] \in alt[k]

\* the position after the whitespace of data_string that starts at pos
RECURSIVE SkipSpaces(_, _)
SkipSpaces(data_string, pos) ==
    IF pos <= Len(data_string) /\ data_string[pos] \in Whitespace
        THEN SkipSpaces(data_string, pos + 1) ELSE pos

NoMatch == [ok |-> FALSE, end |-> 0, fields |-> NoFields]

\* re.match of the items k.. against data_string from pos: the first match in
\* the order in which a backtracking matcher tries the alternatives.  \s+ takes
\* all the whitespace there is and gives it back one character at a time.
RECURSIVE MatchItems(_, _, _, _, _)
RECURSIVE MatchAlternatives(_, _, _, _, _, _)
RECURSIVE MatchWhitespace(_, _, _, _, _, _)
MatchItems(items, k, data_string, pos, fields) ==
    IF k > Len(items) THEN [ok |-> TRUE, end |-> pos - 1, fields |-> fields]
    ELSE IF items[k].kind = "lit"
        THEN IF pos <= Len(data_string) /\ MatchesIgnoringCase(items[k].ch, data_string[pos])
                 THEN MatchItems(items, k + 1, data_string, pos + 1, fields)
             ELSE NoMatch
    ELSE IF items[k].kind = "ws"
        THEN MatchWhitespace(items, k, data_string, pos, fields,
                             SkipSpaces(data_string, pos))
    ELSE MatchAlternatives(items, k, data_string, pos, fields, 1)

MatchWhitespace(items, k, data_string, pos, fields, next) ==
    IF next <= pos THEN NoMatch
    ELSE LET rest == MatchItems(items, k + 1, data_string, next, fields)
         IN  IF rest.ok THEN rest
             ELSE MatchWhitespace(items, k, data_string, pos, fields, next - 1)

MatchAlternatives(items, k, data_string, pos, fields, a) ==
    LET alts == DirectiveAlternatives[items[k].ch]
    IN  IF a > Len(alts) THEN NoMatch
        ELSE IF AlternativeMatches(alts[a], data_string, pos)
            THEN LET found == SubSeq(data_string, pos, pos + Len(alts[a]) - 1)
                     rest == MatchItems(items, k + 1, data_string, pos + Len(alts[a]),
                                        [fields EXCEPT ![items[k].ch] = found])
                 IN  IF rest.ok THEN rest
                     ELSE MatchAlternatives(items, k, data_string, pos, fields, a + 1)
        ELSE MatchAlternatives(items, k, data_string, pos, fields, a + 1)

StrptimeFailed == [status |-> "ValueError", dt |-> NoDatetime]

StrptimeBadPattern == [status |-> "re.error", dt |-> NoDatetime]

Given(fields, x) == fields[x] # <<>>

\* int() of a matched field whose first character may be the blank of "%d"
FieldInt(s) == IF Len(s) > 0 /\ s[1] = " " THEN ToInt(Tail(s)) ELSE ToInt(s)

\* s without its i-th character
WithoutChar(s, i) == SubSeq(s, 1, i - 1) \o SubSeq(s, i + 1, Len(s))

\* the digits padded with zeros on the right up to six
RECURSIVE PaddedToSix(_)
PaddedToSix(digits) == IF Len(digits) >= 6 THEN digits ELSE PaddedToSix(Append(digits, "0"))

ZOffset(ok, minutes, seconds, microseconds) ==
    [ok |-> ok, minutes |-> minutes, seconds |-> seconds, microseconds |-> microseconds]

\* the offset read from z once the colon after the hours is taken out: hours,
\* minutes, int(z[5:7] or 0) seconds and the fraction z[8:], and the
\* timezone made of them, which must be shorter than 24 hours
ZOffsetOfDigits(z) ==
    LET sign == IF z[1] = "-" THEN -1 ELSE 1
    IN  IF Len(z) > 5 /\ ~IsDigitString(SubSeq(z, 6, Min(7, Len(z)))) THEN ZOffset(FALSE, 0, 0, 0)
        ELSE IF ToInt(SubSeq(z, 2, 3)) >= 24 THEN ZOffset(FALSE, 0, 0, 0)
        ELSE ZOffset(TRUE,
                     sign * (60 * ToInt(SubSeq(z, 2, 3)) + ToInt(SubSeq(z, 4, 5))),
                     sign * (IF Len(z) > 5 THEN ToInt(SubSeq(z, 6, 7)) ELSE 0),
                     sign * ToInt(PaddedToSix(SubSeq(z, 9, Len(z)))))

\* the UTC offset of a matched %z field
ZFieldOffset(z) ==
    IF z = <<"Z">> THEN ZOffset(TRUE, 0, 0, 0)
    ELSE IF z[4] = ":"
        THEN IF Len(z) > 6
                 THEN IF z[7] # ":" THEN ZOffset(FALSE, 0, 0, 0)
                      ELSE ZOffsetOfDigits(WithoutChar(WithoutChar(z, 4), 6))
             ELSE ZOffsetOfDigits(WithoutChar(z, 4))
    ELSE ZOffsetOfDigits(z)

\* the year directive that the loop over the groups of the match meets last:
\* the groups come in the order of the pattern
LastYearDirective(items) ==
    LET years == {k \in 1..Len(items) : items[k].kind = "dir" /\ items[k].ch \in {"y", "Y"}}
    IN  IF years = {} THEN "none"
        ELSE items[CHOOSE k \in years : \A n \in years : n <= k].ch

\* leap_year_fix: a 29th of February without a year directive
LeapYearFix(items, month, day) ==
    LastYearDirective(items) = "none" /\ month = 2 /\ day = 29

\* the year of the computations: the one of the last year directive, 1904
\* under leap_year_fix, 1900 otherwise
YearOfFields(fields, items, leap_year_fix) ==
    IF LastYearDirective(items) = "Y" THEN ToInt(fields["Y"])
    ELSE IF LastYearDirective(items) = "y"
        THEN (IF ToInt(fields["y"]) <= 68 THEN 2000 ELSE 1900) + ToInt(fields["y"])
    ELSE IF leap_year_fix THEN 1904
    ELSE 1900

\* the date that stands for a ValueError of datetime_date
NoDate == [year |-> 0, month |-> 1, day |-> 1]

\* year, month and day after the julian computation: with a day of the year
\* they are those of datetime_date.fromordinal, whatever month and day were
\* matched
DateOfFields(fields, year, month, day) ==
    IF year < 1 THEN NoDate
    ELSE IF Given(fields, "j")
        THEN IF ToInt(fields["j"]) + DaysBeforeYear(year) > DaysBeforeYear(10000)
                 THEN NoDate
             ELSE FromOrdinal(ToInt(fields["j"]) - 1 + ToOrdinal(year, 1, 1), year)
    ELSE IF day > DaysInMonth(year, month) THEN NoDate
    ELSE [year |-> year, month |-> month, day |-> day]

\* cls(year, month, day, hour, minute, second, fraction, tz) of
\* _strptime_datetime, which validates the date once more
DatetimeOfFields(fields, date, year, offset) ==
    IF ~offset.ok \/ date.year < 1 THEN StrptimeFailed
    ELSE IF date.day > DaysInMonth(year, date.month) THEN StrptimeFailed
    ELSE IF Given(fields, "S") /\ ToInt(fields["S"]) > 59 THEN StrptimeFailed
    ELSE [status |-> "ok",
          dt |-> [Datetime(year, date.month, date.day,
                           IF Given(fields, "H") THEN ToInt(fields["H"]) ELSE 0,
                           IF Given(fields, "M") THEN ToInt(fields["M"]) ELSE 0,
                           IF Given(fields, "S") THEN ToInt(fields["S"]) ELSE 0)
                  EXCEPT !.aware = Given(fields, "z"),
                         !.utcoffset = offset.minutes,
                         !.utcoffset_second = offset.seconds,
                         !.utcoffset_microsecond = offset.microseconds,
                         !.tz = IF Given(fields, "z") THEN "offset" ELSE "naive"]]

\* if leap_year_fix: year = 1900
DatetimeOfDate(fields, leap_year_fix, date) ==
    DatetimeOfFields(fields, date, IF leap_year_fix THEN 1900 ELSE date.year,
                     IF Given(fields, "z") THEN ZFieldOffset(fields["z"])
                     ELSE ZOffset(TRUE, 0, 0, 0))

FieldsWithLeapYearFix(fields, items, month, day, leap_year_fix) ==
    DatetimeOfDate(fields, leap_year_fix,
                   DateOfFields(fields, YearOfFields(fields, items, leap_year_fix),
                                month, day))

FieldsWithMonthAndDay(fields, items, month, day) ==
    FieldsWithLeapYearFix(fields, items, month, day, LeapYearFix(items, month, day))

\* The datetime that the matched fields denote.  A 29th of February without a
\* year directive is computed in 1904 (leap_year_fix) and the year is set back
\* to 1900 before the datetime is made, which validates the date once more.
FieldsToDatetime(fields, items) ==
    FieldsWithMonthAndDay(fields, items,
                          IF Given(fields, "m") THEN FieldInt(fields["m"]) ELSE 1,
                          IF Given(fields, "d") THEN FieldInt(fields["d"]) ELSE 1)

\* datetime.strptime(data_string, format)
strptime(data_string, format) ==
    LET compiled == FormatItems(format, 1, <<>>)
    IN  IF compiled.ok = "re.error" THEN StrptimeBadPattern
        ELSE IF compiled.ok # "ok" THEN StrptimeFailed
        ELSE LET found == MatchItems(compiled.items, 1, data_string, 1, NoFields)
             IN  IF ~found.ok \/ found.end # Len(data_string) THEN StrptimeFailed
                 ELSE FieldsToDatetime(found.fields, compiled.items)

(***************************************************************************)
(* pytz: the time zones drawn here have a fixed UTC offset, in minutes.    *)
(***************************************************************************)
ZoneOffsets == [z \in {"UTC", "Etc/GMT-1"} |-> IF z = "UTC" THEN 0 ELSE 60]

\* pytz.timezone(name) succeeds
IsPytzTimeZone(name) == name \in DOMAIN ZoneOffsets

\* the wall clock of dt moved by the given number of minutes
ShiftMinutes(dt, minutes) ==
    LET total == dt.hour * 60 + dt.minute + minutes
        days == total \div 1440
        date == FromOrdinal(ToOrdinal(dt.year, dt.month, dt.day) + days, dt.year)
    IN  [dt EXCEPT !.year = date.year, !.month = date.month, !.day = date.day,
                   !.hour = (total % 1440) \div 60, !.minute = total % 60]

\* the wall clock of dt moved by minutes, seconds and microseconds
ShiftClock(dt, minutes, seconds, microseconds) ==
    LET us == dt.microsecond + microseconds
        s == dt.second + seconds + (us \div 1000000)
    IN  [ShiftMinutes(dt, minutes + (s \div 60))
            EXCEPT !.second = s % 60, !.microsecond = us % 1000000]

\* the tzinfo of the zone, whose offset is whole minutes
WithZone(dt, time_zone) ==
    [dt EXCEPT !.aware = TRUE, !.utcoffset = ZoneOffsets[time_zone],
               !.utcoffset_second = 0, !.utcoffset_microsecond = 0, !.tz = time_zone]

\* a localize that attaches UTC whatever the zone
localizeToUTC(pytz_time_zone, dt) == WithZone(dt, "UTC")

\* pytz_time_zone.localize(dt) for a naive dt
localize(pytz_time_zone, dt) == WithZone(dt, pytz_time_zone)

TimeReturned(dt) == [status |-> "ok", dt |-> dt]

TimeRaised(e) == [status |-> e, dt |-> NoDatetime]

\* datetime.min <= dt <= datetime.max
InDatetimeRange(dt) == dt.year \in 1..9999

\* an astimezone that replaces the tzinfo and keeps the wall clock
astimezoneKeepingWallClock(dt, to_time_zone) == TimeReturned(WithZone(dt, to_time_zone))

\* dt.astimezone(to_time_zone) for an aware dt: dt itself when its tzinfo is
\* the zone asked for, else dt - dt.utcoffset() handed to the fromutc of the
\* zone, which adds the offset of the zone.  Either sum that leaves the years
\* 1..9999 is an OverflowError.
astimezone(dt, to_time_zone) ==
    IF dt.tz = to_time_zone THEN TimeReturned(dt)
    ELSE LET utc == ShiftClock(dt, -dt.utcoffset, -dt.utcoffset_second,
                               -dt.utcoffset_microsecond)
             local == ShiftClock(utc, ZoneOffsets[to_time_zone], 0, 0)
         IN  IF ~InDatetimeRange(utc) \/ ~InDatetimeRange(local)
                 THEN TimeRaised("OverflowError")
             ELSE TimeReturned(WithZone(local, to_time_zone))

\* the epoch wall clock with the zone attached
fromtimestamp0Localized(pytz_time_zone) ==
    localize(pytz_time_zone, Datetime(1970, 1, 1, 0, 0, 0))

\* datetime.fromtimestamp(0, pytz_time_zone)
fromtimestamp0(pytz_time_zone) ==
    astimezone(localize("UTC", Datetime(1970, 1, 1, 0, 0, 0)), pytz_time_zone).dt

(***************************************************************************)
(* cr._parse_time_values                                                   *)
(***************************************************************************)
\* a try/except/else that localizes every parsed datetime
AfterStrptimeRelocalizing(pytz_time_zone, parsed, ignore_parsing_error) ==
    IF parsed.status = "ValueError"
        THEN IF ignore_parsing_error
                 THEN TimeReturned(fromtimestamp0(pytz_time_zone))
             ELSE TimeRaised("TimeParsingError")
    ELSE IF parsed.status # "ok" THEN TimeRaised(parsed.status)
    ELSE TimeReturned(localize(pytz_time_zone, parsed.dt))

\* the try/except/else around datetime.strptime
AfterStrptime(pytz_time_zone, parsed, ignore_parsing_error) ==
    IF parsed.status = "ValueError"
        THEN IF ignore_parsing_error
                 THEN TimeReturned(fromtimestamp0(pytz_time_zone))
             ELSE TimeRaised("TimeParsingError")
    ELSE IF parsed.status # "ok" THEN TimeRaised(parsed.status)
    ELSE IF parsed.dt.aware THEN TimeReturned(parsed.dt)
    ELSE TimeReturned(localize(pytz_time_zone, parsed.dt))

_parse_time_values(pytz_time_zone, time_format_args_library, time_values, ignore_parsing_error, to_utc) ==
    LET info == _parse_custom_time_formats(time_format_args_library, time_values)
    IN  IF info.status # "ok" THEN TimeRaised(info.status)
        ELSE LET local == AfterStrptime(pytz_time_zone,
                              strptime(info.parsed_time, info.parsed_time_format),
                              ignore_parsing_error)
             IN  IF local.status # "ok" THEN local
                 ELSE IF to_utc THEN astimezone(local.dt, "UTC")
                 ELSE local

(***************************************************************************)
(* dataset.Row: an OrderedDict, modelled as the sequence of its items.     *)
(***************************************************************************)
StrKey(s) == [kind |-> "str", name |-> s, index |-> 0]

IntKey(i) == [kind |-> "int", name |-> "", index |-> i]

None == [kind |-> "none", name |-> "", index |-> 0]

\* bool(key): None, 0 and '' are false
Truthy(key) ==
    \/ key.kind = "str" /\ key.name # ""
    \/ key.kind = "int" /\ key.index # 0

StrValue(s) == [kind |-> "str", str |-> s, dt |-> NoDatetime]

DatetimeValue(dt) == [kind |-> "datetime", str |-> <<>>, dt |-> dt]

Item(name, value) == [name |-> name, value |-> value]

\* list(row.keys())
Keys(row) == [i \in 1..Len(row) |-> row[i].name]

\* name in row
Contains(row, name) == \E i \in 1..Len(row) : row[i].name = name

\* row[name], for a name in row
GetItem(row, name) == row[CHOOSE i \in 1..Len(row) : row[i].name = name].value

\* row[name] = value: the value of a present key is replaced where it stands,
\* a new key is appended
SetItem(row, name, value) ==
    IF Contains(row, name)
        THEN [i \in 1..Len(row) |->
                 IF row[i].name = name THEN Item(name, value) ELSE row[i]]
    ELSE Append(row, Item(name, value))

\* del row[name], for a name in row
DelItem(row, name) == SelectSeq(row, LAMBDA item : item.name # name)

\* Row(items): the items are set one after the other
RECURSIVE RowFromItems(_, _)
RowFromItems(items, row) ==
    IF Len(items) = 0 THEN row
    ELSE RowFromItems(Tail(items), SetItem(row, items[1].name, items[1].value))

(***************************************************************************)
(* cr.parse_time                                                           *)
(***************************************************************************)
\* name in time_columns
InList(name, time_columns) == \E i \in 1..Len(time_columns) : time_columns[i] = name

\* cr._find_first_time_column_name, for a non-empty time_columns
_find_first_time_column_name(column_names, time_columns) ==
    IF \E i \in 1..Len(column_names) : column_names[i] = time_columns[1]
        THEN [status |-> "ok", name |-> time_columns[1]]
    ELSE [status |-> "TimeColumnValueError", name |-> None]

\* the choice of the column to replace
ReplaceTimeColumnName(row, time_columns, replace_time_column) ==
    IF ~Truthy(replace_time_column)
        THEN _find_first_time_column_name(Keys(row), time_columns)
    ELSE IF ~Contains(row, replace_time_column)
        THEN [status |-> "TimeColumnValueError", name |-> None]
    ELSE [status |-> "ok", name |-> replace_time_column]

\* the time values of a row taken in the order of time_columns
RowTimeColumnValuesAsListed(row, time_columns) ==
    LET listed == SelectSeq(time_columns, LAMBDA name : Contains(row, name))
    IN  [i \in 1..Len(listed) |-> GetItem(row, listed[i]).str]

\* [value for name, value in row.items() if name in time_columns], as strings
RowTimeColumnValues(row, time_columns) ==
    LET kept == SelectSeq(row, LAMBDA item : InList(item.name, time_columns))
    IN  [i \in 1..Len(kept) |-> kept[i].value.str]

\* the deletion loop that keeps the time columns
DeleteTimeColumnsNever(row_converted, time_columns, new_name, i) == row_converted

\* for time_column in time_columns: delete it unless it is new_name
RECURSIVE DeleteTimeColumns(_, _, _, _)
DeleteTimeColumns(row_converted, time_columns, new_name, i) ==
    IF i > Len(time_columns) THEN row_converted
    ELSE IF Contains(row_converted, time_columns[i]) /\ time_columns[i] # new_name
        THEN DeleteTimeColumns(DelItem(row_converted, time_columns[i]),
                               time_columns, new_name, i + 1)
    ELSE DeleteTimeColumns(row_converted, time_columns, new_name, i + 1)

RowOutcome(status, row, row_converted) ==
    [status |-> status, row |-> row, row_converted |-> row_converted]

\* (new_name if name == old_name else name, value) for name, value in row.items()
RenamedItems(row, old_name, new_name) ==
    [i \in 1..Len(row) |->
        Item(IF row[i].name = old_name THEN new_name ELSE row[i].name, row[i].value)]

\* the renamed items set within the object of the input row, which is then
\* row_converted
RowConvertedInPlace(objects, row, old_name, new_name) ==
    [objects |-> [objects EXCEPT
                      ![row] = RowFromItems(RenamedItems(objects[row], old_name, new_name),
                                            <<>>)],
     row_converted |-> row]

\* Lines 994 and 995, row_converted = Row(...): objects[r] holds the items of
\* the Row object r.  Row makes a new object of the renamed items of the object row,
\* which is only read.
NewRowConverted(objects, row, old_name, new_name) ==
    [objects |-> Append(objects,
                        RowFromItems(RenamedItems(objects[row], old_name, new_name), <<>>)),
     row_converted |-> Len(objects) + 1]

\* lines 996 to 1000: the timestamp written to the object row_converted and
\* the time columns deleted from it
WriteAndDelete(made, time_columns, new_name, row_time_converted) ==
    [objects |-> [made.objects EXCEPT
                      ![made.row_converted] =
                          DeleteTimeColumns(
                              SetItem(@, new_name, DatetimeValue(row_time_converted)),
                              time_columns, new_name, 1)],
     row_converted |-> made.row_converted]

RenameAndDeleteAs(objects, row, time_columns, old_name, new_name, row_time_converted) ==
    WriteAndDelete(NewRowConverted(objects, row, old_name, new_name),
                   time_columns, new_name, row_time_converted)

\* lines 989 to 1000: the new name, the new Row, the timestamp written to the
\* object row_converted and the time columns deleted from it
RenameAndDelete(objects, row, time_columns, time_parsed_column, old_name, row_time_converted) ==
    RenameAndDeleteAs(objects, row, time_columns, old_name,
                      IF Truthy(time_parsed_column) THEN time_parsed_column ELSE old_name,
                      row_time_converted)

\* the input row and the converted row as the objects hold them after the
\* body of the loop
ConvertedRowOutcome(done, row) ==
    RowOutcome("ok", done.objects[row], done.objects[done.row_converted])

\* The body of the loop of parse_time for one row, given the outcomes of the
\* choice of the column to replace and of _parse_time_values.  The row is the
\* first object there is.
ConvertRowWith(row, time_columns, time_parsed_column, replace, row_time_converted) ==
    IF replace.status # "ok" THEN RowOutcome(replace.status, row, <<>>)
    ELSE IF row_time_converted.status # "ok"
        THEN RowOutcome(row_time_converted.status, row, <<>>)
    ELSE ConvertedRowOutcome(
             RenameAndDelete(<<row>>, 1, time_columns, time_parsed_column,
                             replace.name, row_time_converted.dt), 1)

\* The body of the loop of parse_time for one row.
ConvertRow(row, pytz_time_zone, time_format_args_library, time_columns, time_parsed_column, replace_time_column, to_utc) ==
    ConvertRowWith(row, time_columns, time_parsed_column,
        ReplaceTimeColumnName(row, time_columns, replace_time_column),
        _parse_time_values(pytz_time_zone, time_format_args_library,
                           RowTimeColumnValues(row, time_columns), FALSE, to_utc))

ParseTimeOutcome(status, rows, data_converted) ==
    [status |-> status, data |-> rows, data_converted |-> data_converted]

RECURSIVE ParseTimeLoop(_, _, _, _)

\* the end of an iteration that leaves out a row that cannot be converted
ParseTimeLoopStepSkipping(rows, i, data_converted, args, done) ==
    IF done.status # "ok" THEN ParseTimeLoop(rows, i + 1, data_converted, args)
    ELSE ParseTimeLoop([rows EXCEPT ![i] = done.row], i + 1,
                       Append(data_converted, done.row_converted), args)

\* the end of an iteration: an error leaves parse_time, a converted row is
\* appended to data_converted
ParseTimeLoopStep(rows, i, data_converted, args, done) ==
    IF done.status # "ok"
        THEN ParseTimeOutcome(done.status, [rows EXCEPT ![i] = done.row], <<>>)
    ELSE ParseTimeLoop([rows EXCEPT ![i] = done.row], i + 1,
                       Append(data_converted, done.row_converted), args)

\* for row in _data_generator(data): ... data_converted.append(row_converted)
ParseTimeLoop(rows, i, data_converted, args) ==
    IF i > Len(rows) THEN ParseTimeOutcome("ok", rows, data_converted)
    ELSE ParseTimeLoopStep(rows, i, data_converted, args,
             ConvertRow(rows[i], args.time_zone, args.time_format_args_library,
                        args.time_columns, args.time_parsed_column,
                        args.replace_time_column, args.to_utc))

\* a parse_time that returns an empty data set when no time column is given
parse_timeWithoutColumns(rows, args) ==
    IF ~IsPytzTimeZone(args.time_zone)
        THEN ParseTimeOutcome("UnknownPytzTimeZoneError", rows, <<>>)
    ELSE IF Len(args.time_columns) = 0
        THEN ParseTimeOutcome("ok", rows, <<>>)
    ELSE ParseTimeLoop(rows, 1, <<>>, args)

\* cr.parse_time: the outcome, the rows of the input data set after the call
\* and the rows of the data set returned
parse_time(rows, args) ==
    IF ~IsPytzTimeZone(args.time_zone)
        THEN ParseTimeOutcome("UnknownPytzTimeZoneError", rows, <<>>)
    ELSE IF Len(args.time_columns) = 0
        THEN ParseTimeOutcome("TimeColumnValueError", rows, <<>>)
    ELSE ParseTimeLoop(rows, 1, <<>>, args)

(***************************************************************************)
(* Files: an output path either does not exist or holds a text, the        *)
(* sequence of its characters.                                             *)
(***************************************************************************)
Newline == "\n"

Quote == "\""

NoFile == [exists |-> FALSE, text |-> <<>>]

FileOf(text) == [exists |-> TRUE, text |-> text]

\* line.strip(): the line without the whitespace at its two ends
RECURSIVE strip(_)
strip(line) ==
    IF Len(line) > 0 /\ line[1] \in Whitespace THEN strip(Tail(line))
    ELSE IF Len(line) > 0 /\ line[Len(line)] \in Whitespace
        THEN strip(SubSeq(line, 1, Len(line) - 1))
    ELSE line

\* the first line end of text from position i on, or the position after the
\* text when there is none
LineEnd(text, i) ==
    IF \E p \in i..Len(text) : text[p] \in {Newline, "\r"}
        THEN CHOOSE p \in i..Len(text) :
                 /\ text[p] \in {Newline, "\r"}
                 /\ \A q \in i..(p - 1) : text[q] \notin {Newline, "\r"}
    ELSE Len(text) + 1

\* the position after the line end at position end: "\r\n" is one line end
AfterLineEnd(text, end) ==
    IF end < Len(text) /\ text[end] = "\r" /\ text[end + 1] = Newline
        THEN end + 2 ELSE end + 1

RECURSIVE Lines(_, _)
LinesFrom(text, i, end) ==
    <<strip(SubSeq(text, i, end - 1))>> \o Lines(text, AfterLineEnd(text, end))

\* f_list = [line.strip() for line in f] of a file opened with open(path, 'r'),
\* from position i of its text: "\n", "\r" and "\r\n" end a line, and what
\* follows the last line end is a line when it is not empty
Lines(text, i) ==
    IF i > Len(text) THEN <<>> ELSE LinesFrom(text, i, LineEnd(text, i))

(***************************************************************************)
(* cr.export_to_csv                                                        *)
(***************************************************************************)
\* str(n) with leading zeros up to the given width
RECURSIVE ZeroPadded(_, _)
ZeroPadded(n, width) ==
    IF Len(Render(n)) >= width THEN Render(n)
    ELSE <<"0">> \o ZeroPadded(n, width - 1) 

Abs(n) == IF n < 0 THEN -n ELSE n

\* dt.strftime('%z'): sign, hours and minutes, then the seconds when the
\* offset has seconds or microseconds, then the microseconds when it has any
UtcOffsetText(dt) ==
    IF ~dt.aware THEN <<>>
    ELSE (IF dt.utcoffset < 0 \/ dt.utcoffset_second < 0 \/ dt.utcoffset_microsecond < 0
              THEN <<"-">> ELSE <<"+">>)
         \o ZeroPadded(Abs(dt.utcoffset) \div 60, 2) \o ZeroPadded(Abs(dt.utcoffset) % 60, 2)
         \o (IF dt.utcoffset_second # 0 \/ dt.utcoffset_microsecond # 0
                 THEN ZeroPadded(Abs(dt.utcoffset_second), 2) ELSE <<>>)
         \o (IF dt.utcoffset_microsecond # 0
                 THEN <<".">> \o ZeroPadded(Abs(dt.utcoffset_microsecond), 6) ELSE <<>>)

\* cr._datetime_to_string: strftime of the C library, which writes the year
\* of %Y without leading zeros
_datetime_to_string(dt, include_time_zone) ==
    Render(dt.year) \o <<"-">> \o ZeroPadded(dt.month, 2) \o <<"-">>
    \o ZeroPadded(dt.day, 2) \o <<" ">> \o ZeroPadded(dt.hour, 2) \o <<":">>
    \o ZeroPadded(dt.minute, 2) \o <<":">> \o ZeroPadded(dt.second, 2)
    \o (IF include_time_zone THEN UtcOffsetText(dt) ELSE <<>>)

\* cr._values_to_strings: the values of the row as strings
_values_to_strings(row, include_time_zone) ==
    [i \in 1..Len(row) |->
        IF row[i].value.kind = "datetime"
            THEN _datetime_to_string(row[i].value.dt, include_time_zone)
        ELSE row[i].value.str]

\* str(key), for an index or a name of one character
KeyText(key) == IF key.kind = "int" THEN Render(key.index) ELSE <<key.name>>

\* ",".join(cells) + "\n"
CsvLine(cells) == Join(cells, Comma) \o <<Newline>>

\* cr._values_to_strings: the row it was given, after the call
RowAfterValuesToStrings(row, include_time_zone) ==
    [i \in 1..Len(row) |-> Item(row[i].name, StrValue(_values_to_strings(row, include_time_zone)[i]))]

\* an export that writes from the Row objects of data themselves
DataToExportWithoutCopy(objects) ==
    [objects |-> objects, rows |-> [k \in 1..Len(objects) |-> k]]

\* Lines 721 and 722, data_to_export = DataSet([Row([(name, value) for name,
\* value in row.items()]) for row in data]): objects[r] holds the items of the
\* Row object r, the rows of data being the objects there are.  Every Row of
\* data_to_export is a new object made of the items of a row of data.
DataToExport(objects) ==
    [objects |-> objects \o [k \in 1..Len(objects) |-> RowFromItems(objects[k], <<>>)],
     rows |-> [k \in 1..Len(objects) |-> Len(objects) + k]]

Written(text, objects) == [text |-> text, objects |-> objects]

\* lines 734 to 739 for one row, before what is written for the rows after it:
\* the header when it is wanted, then the line of the values of the row
WrittenRow(row, export_header, include_time_zone, rest) ==
    Written((IF export_header
                 THEN CsvLine([j \in 1..Len(row) |-> KeyText(row[j].name)])
             ELSE <<>>)
            \o CsvLine(_values_to_strings(row, include_time_zone))
            \o rest.text,
            rest.objects)

\* for row in _data_generator(data_to_export): the header before the first
\* row when it is wanted, then the line of the values of each row, which
\* _values_to_strings writes back into the object of the row
RECURSIVE WrittenRows(_, _, _, _, _)
WrittenRows(objects, data_to_export, i, export_header, include_time_zone) ==
    IF i > Len(data_to_export) THEN Written(<<>>, objects)
    ELSE WrittenRow(objects[data_to_export[i]], export_header, include_time_zone,
                    WrittenRows([objects EXCEPT
                                     ![data_to_export[i]] =
                                         RowAfterValuesToStrings(@, include_time_zone)],
                                data_to_export, i + 1, FALSE, include_time_zone))

\* the writing loop over the rows of data_to_export
WrittenFrom(made, export_header, include_time_zone) ==
    WrittenRows(made.objects, made.rows, 1, export_header, include_time_zone)

\* lines 726 to 730: the header is given up when the file holds any line
HeaderWanted(file, export_header) ==
    export_header /\ ~(file.exists /\ Len(Lines(file.text, 1)) > 0)

\* open(outfile_path, mode): what the file holds before the first write
OpenedForWriting(file, mode) ==
    IF file.exists /\ mode \in {"a", "a+"} THEN file.text ELSE <<>>

\* cr.export_to_csv: the text written and the Row objects after the call
Exported(file, rows, export_header, include_time_zone) ==
    WrittenFrom(DataToExport(rows), HeaderWanted(file, export_header), include_time_zone)

\* cr.export_to_csv: the file after the call
export_to_csv(file, rows, export_header, mode, include_time_zone) ==
    FileOf(OpenedForWriting(file, mode)
           \o Exported(file, rows, export_header, include_time_zone).text)

\* cr.export_to_csv: the rows of data after the call
DataAfterExport(file, rows, export_header, include_time_zone) ==
    SubSeq(Exported(file, rows, export_header, include_time_zone).objects, 1, Len(rows))

(***************************************************************************)
(* csv.reader with the default dialect, and cr.read_table_data without a  *)
(* header.  The file is opened by open(infile_path, 'r'): the reader gets  *)
(* its text with universal newlines, "\r" and "\r\n" read as "\n".         *)
(***************************************************************************)
ReaderState(state, field, fields) == [state |-> state, field |-> field, fields |-> fields]

SaveField(r, state) == ReaderState(state, <<>>, Append(r.fields, r.field))

AddChar(r, c, state) == ReaderState(state, Append(r.field, c), r.fields)

\* the reader after the end of a line
ProcessEndOfLine(r) ==
    CASE r.state \in {"START_RECORD", "EAT_CRNL"} -> ReaderState("START_RECORD", r.field, r.fields)
      [] r.state \in {"START_FIELD", "IN_FIELD", "QUOTE_IN_QUOTED_FIELD"} ->
            SaveField(r, "START_RECORD")
      [] OTHER -> r

\* "\n" and "\r" both end a line for the reader
IsLineEnd(c) == c \in {Newline, "\r"}

\* the reader after one character of a line
ProcessChar(r, c) ==
    CASE r.state \in {"START_RECORD", "START_FIELD"} ->
            IF IsLineEnd(c)
                THEN (IF r.state = "START_RECORD"
                          THEN ReaderState("EAT_CRNL", r.field, r.fields)
                      ELSE SaveField(r, "EAT_CRNL"))
            ELSE IF c = Quote THEN ReaderState("IN_QUOTED_FIELD", r.field, r.fields)
            ELSE IF c = "," THEN SaveField(r, "START_FIELD")
            ELSE AddChar(r, c, "IN_FIELD")
      [] r.state = "IN_FIELD" ->
            IF IsLineEnd(c) THEN SaveField(r, "EAT_CRNL")
            ELSE IF c = "," THEN SaveField(r, "START_FIELD")
            ELSE AddChar(r, c, "IN_FIELD")
      [] r.state = "IN_QUOTED_FIELD" ->
            IF c = Quote THEN ReaderState("QUOTE_IN_QUOTED_FIELD", r.field, r.fields)
            ELSE AddChar(r, c, "IN_QUOTED_FIELD")
      [] r.state = "QUOTE_IN_QUOTED_FIELD" ->
            IF c = Quote THEN AddChar(r, c, "IN_QUOTED_FIELD")
            ELSE IF c = "," THEN SaveField(r, "START_FIELD")
            ELSE IF IsLineEnd(c) THEN SaveField(r, "EAT_CRNL")
            ELSE AddChar(r, c, "IN_FIELD")
      [] OTHER -> r

\* the character the open file hands over for character i of its text
CharRead(text, i) == IF text[i] = "\r" THEN Newline ELSE text[i]

RECURSIVE CsvRecords(_, _, _, _)

\* the reader at the end of character i: a record is complete when the line
\* ends outside a quoted field; the "\n" of a "\r\n" is not read again
CsvAfterChar(text, i, r, records) ==
    IF ~IsLineEnd(text[i]) /\ i < Len(text) THEN CsvRecords(text, i + 1, r, records)
    ELSE IF ProcessEndOfLine(r).state = "START_RECORD"
        THEN CsvRecords(text, AfterLineEnd(text, i), ReaderState("START_RECORD", <<>>, <<>>),
                        Append(records, ProcessEndOfLine(r).fields))
    ELSE CsvRecords(text, AfterLineEnd(text, i), r, records)

\* list(csv.reader(f)) for the text of f, from character i on
CsvRecords(text, i, r, records) ==
    IF i > Len(text)
        THEN (IF Len(r.field) # 0 \/ r.state = "IN_QUOTED_FIELD"
                  THEN Append(records, Append(r.fields, r.field))
              ELSE records)
    ELSE CsvAfterChar(text, i, ProcessChar(r, CharRead(text, i)), records)

csv_reader(text) == CsvRecords(text, 1, ReaderState("START_RECORD", <<>>, <<>>), <<>>)

ReadOutcome(status, rows) == [status |-> status, rows |-> rows]

\* cr.read_table_data(infile_path), without header and without time parsing
read_table_data(file) ==
    IF ~file.exists THEN ReadOutcome("FileNotFoundError", <<>>)
    ELSE LET records == csv_reader(file.text)
         IN  ReadOutcome("ok",
                 [k \in 1..Len(records) |->
                     [i \in 1..Len(records[k]) |->
                         Item(IntKey(i - 1), StrValue(records[k][i]))]])

(***************************************************************************)
(* cr.filter_mixed_array_data for a DataSet.  The defaultdict returned is  *)
(* the sequence of its items, in the order the array ids were first seen.  *)
(***************************************************************************)
Group(array_id, rows) == [array_id |-> array_id, rows |-> rows]

HasGroup(groups, array_id) == \E g \in 1..Len(groups) : groups[g].array_id = array_id

\* a grouping that puts the newest row of an array first
AppendToGroupPrepending(groups, array_id, row) ==
    IF HasGroup(groups, array_id)
        THEN [g \in 1..Len(groups) |->
                 IF groups[g].array_id = array_id
                     THEN Group(array_id, <<row>> \o groups[g].rows)
                 ELSE groups[g]]
    ELSE Append(groups, Group(array_id, <<row>>))

\* data_filtered[array_id_name].append(row)
AppendToGroup(groups, array_id, row) ==
    IF HasGroup(groups, array_id)
        THEN [g \in 1..Len(groups) |->
                 IF groups[g].array_id = array_id
                     THEN Group(array_id, Append(groups[g].rows, row))
                 ELSE groups[g]]
    ELSE Append(groups, Group(array_id, <<row>>))

\* one pass of the loop over the rows: a row without values is passed over
FilterRow(groups, row, array_ids) ==
    IF Len(row) = 0 THEN groups
    ELSE IF Len(array_ids) = 0 \/ InList(row[1].value, array_ids)
        THEN AppendToGroup(groups, row[1].value, row)
    ELSE groups

RECURSIVE FilterLoop(_, _, _, _)
FilterLoop(rows, i, groups, array_ids) ==
    IF i > Len(rows) THEN groups
    ELSE FilterLoop(rows, i + 1, FilterRow(groups, rows[i], array_ids), array_ids)

FilterReturned(groups) == [status |-> "ok", groups |-> groups]

FilterNotCalled == [status |-> "none", groups |-> <<>>]

\* cr.filter_mixed_array_data(data, *array_ids), data a DataSet
filter_mixed_array_data(rows, array_ids) == FilterReturned(FilterLoop(rows, 1, <<>>, array_ids))

(***************************************************************************)
(* cr._process_mixed_array_rows and cr.read_mixed_array_data, from the     *)
(* first line on.                                                          *)
(***************************************************************************)
\* value.startswith(prefix)
str_startswith(value, prefix) ==
    Len(value) >= Len(prefix) /\ SubSeq(value, 1, Len(prefix)) = prefix

\* value.replace(source, replacement), from character i on: every occurrence
\* of source, left to right
RECURSIVE str_replace(_, _, _, _)
str_replace(value, i, source, replacement) ==
    IF i > Len(value) THEN <<>>
    ELSE IF i + Len(source) - 1 <= Len(value) /\ SubSeq(value, i, i + Len(source) - 1) = source
        THEN replacement \o str_replace(value, i + Len(source), source, replacement)
    ELSE <<value[i]>> \o str_replace(value, i + 1, source, replacement)

\* the loop over replacements = {'.': '0.', '-.': '-0.'} for one value
FixFloat(value) ==
    IF str_startswith(value, <<"-", ".">>)
        THEN str_replace(value, 1, <<"-", ".">>, <<"-", "0", ".">>)
    ELSE IF str_startswith(value, <<".">>)
        THEN str_replace(value, 1, <<".">>, <<"0", ".">>)
    ELSE value

\* Row([(i, value) for i, value in enumerate(row)]) of one csv record
MixedRow(record, fix_floats) ==
    [i \in 1..Len(record) |->
        Item(IntKey(i - 1), StrValue(IF fix_floats THEN FixFloat(record[i]) ELSE record[i]))]

MixedRowsOf(records, fix_floats) == [k \in 1..Len(records) |-> MixedRow(records[k], fix_floats)]

\* cr.read_mixed_array_data(infile_path, fix_floats=fix_floats)
read_mixed_array_data(file, fix_floats) ==
    IF ~file.exists THEN ReadOutcome("FileNotFoundError", <<>>)
    ELSE ReadOutcome("ok", MixedRowsOf(csv_reader(file.text), fix_floats))

(***************************************************************************)
(* cr.read_array_ids_data.  The lookup table array_id_names is the         *)
(* sequence of its items, in insertion order, each array id once.          *)
(***************************************************************************)
NameOf(array_id, name) == [array_id |-> array_id, name |-> name]

RowsOfGroup(groups, array_id) ==
    groups[CHOOSE g \in 1..Len(groups) : groups[g].array_id = array_id].rows

\* data.pop(array_id): the items left
WithoutGroup(groups, array_id) == SelectSeq(groups, LAMBDA group : group.array_id # array_id)

\* data[key] = rows: an existing key keeps its place, a new key comes last
SetGroup(groups, key, rows) ==
    IF HasGroup(groups, key)
        THEN [g \in 1..Len(groups) |->
                 IF groups[g].array_id = key THEN Group(key, rows) ELSE groups[g]]
    ELSE Append(groups, Group(key, rows))

\* one pass of the loop over array_id_names.items()
RenameGroup(groups, array_id, name) ==
    IF HasGroup(groups, array_id) /\ Len(name.str) > 0
        THEN SetGroup(WithoutGroup(groups, array_id), name, RowsOfGroup(groups, array_id))
    ELSE groups

RECURSIVE RenameGroups(_, _, _)
RenameGroups(groups, array_id_names, i) ==
    IF i > Len(array_id_names) THEN groups
    ELSE RenameGroups(RenameGroup(groups, array_id_names[i].array_id, array_id_names[i].name),
                      array_id_names, i + 1)

ArrayIdsOutcome(status, groups) == [status |-> status, groups |-> groups]

\* array_ids = [array_id for array_id in array_id_names]
ArrayIdsOf(array_id_names) == [i \in 1..Len(array_id_names) |-> array_id_names[i].array_id]

\* cr.read_array_ids_data(infile_path, fix_floats=fix_floats, array_id_names=array_id_names)
read_array_ids_data(file, fix_floats, array_id_names) ==
    IF ~file.exists THEN ArrayIdsOutcome("FileNotFoundError", <<>>)
    ELSE ArrayIdsOutcome("ok",
             RenameGroups(FilterLoop(read_mixed_array_data(file, fix_floats).rows, 1, <<>>,
                                     ArrayIdsOf(array_id_names)),
                          array_id_names, 1))

(***************************************************************************)
(* cr.export_array_ids_to_csv for array id separated data: data is the     *)
(* sequence of the groups of the dict, array_ids_info the sequence of its  *)
(* items.  The export information of an array id is None, an empty dict, a *)
(* dict without 'file_path', or a dict with a file path.                   *)
(***************************************************************************)
InfoNone == [kind |-> "None", file_path |-> ""]

InfoEmpty == [kind |-> "empty", file_path |-> ""]

InfoWithoutPath == [kind |-> "other", file_path |-> ""]

InfoWithPath(path) == [kind |-> "path", file_path |-> path]

InfoOf(array_id, info) == [array_id |-> array_id, info |-> info]

\* array_ids_info.get(array_id)
GetInfo(array_ids_info, array_id) ==
    IF \E i \in 1..Len(array_ids_info) : array_ids_info[i].array_id = array_id
        THEN array_ids_info[CHOOSE i \in 1..Len(array_ids_info) :
                                array_ids_info[i].array_id = array_id].info
    ELSE InfoNone

\* a filter that keeps every group of the dict
FilterGroupsKeepingAll(groups, array_ids) == groups

\* cr.filter_mixed_array_data(data, *array_ids) for a dict and at least one array id
FilterGroups(groups, array_ids) ==
    SelectSeq(groups, LAMBDA group : InList(group.array_id, array_ids))

ExportOutcome(status, files) == [status |-> status, files |-> files]

\* the loop over data_filtered.items(), from group g on
RECURSIVE ExportGroups(_, _, _, _, _)
ExportGroups(groups, g, array_ids_info, files, export_header) ==
    IF g > Len(groups) THEN ExportOutcome("ok", files)
    ELSE IF GetInfo(array_ids_info, groups[g].array_id).kind \in {"None", "empty"}
        THEN ExportOutcome("ArrayIdsExportInfoError", files)
    ELSE IF GetInfo(array_ids_info, groups[g].array_id).file_path = ""
        THEN ExportOutcome("ArrayIdsExportInfoError", files)
    ELSE ExportGroups(groups, g + 1, array_ids_info,
             [files EXCEPT ![GetInfo(array_ids_info, groups[g].array_id).file_path] =
                 export_to_csv(@, groups[g].rows, export_header, "a+", FALSE)],
             export_header)

\* cr.export_array_ids_to_csv(data, array_ids_info, export_header): the
\* outcome and the files at the output paths afterwards
export_array_ids_to_csv(groups, array_ids_info, files, export_header) ==
    IF Len(array_ids_info) < 1 THEN ExportOutcome("ArrayIdsInfoValueError", files)
    ELSE ExportGroups(FilterGroups(groups, [i \in 1..Len(array_ids_info) |-> array_ids_info[i].array_id]),
                      1, array_ids_info, files, export_header)

(***************************************************************************)
(* cr.update_column_names                                                  *)
(***************************************************************************)
\* a renaming that leaves the row as it is
RenamedRowKeepingKeys(column_names, row) == row

\* Row([(name, value) for name, value in zip(column_names, row.values())])
RenamedRow(column_names, row) ==
    RowFromItems([i \in 1..Min(Len(column_names), Len(row)) |->
                     Item(column_names[i], row[i].value)], <<>>)

UpdatedColumnNamesResult(updated, mismatched, packed) == [data_updated_column_names |-> updated, data_mismatched_row_lengths |-> mismatched, packed |-> packed]

\* the loop over the rows, from row i on
RECURSIVE UpdateLoop(_, _, _, _, _, _, _)
UpdateLoop(rows, i, column_names, match_row_lengths, get_mismatched_row_lengths, updated, mismatched) ==
    IF i > Len(rows)
        THEN UpdatedColumnNamesResult(updated,
                 IF match_row_lengths /\ get_mismatched_row_lengths THEN mismatched ELSE <<>>,
                 match_row_lengths /\ get_mismatched_row_lengths)
    ELSE IF match_row_lengths /\ Len(column_names) # Len(rows[i])
        THEN UpdateLoop(rows, i + 1, column_names, match_row_lengths, get_mismatched_row_lengths,
                 updated,
                 IF get_mismatched_row_lengths THEN Append(mismatched, rows[i]) ELSE mismatched)
    ELSE UpdateLoop(rows, i + 1, column_names, match_row_lengths, get_mismatched_row_lengths,
             Append(updated, RenamedRow(column_names, rows[i])),
             IF ~match_row_lengths /\ get_mismatched_row_lengths
                 THEN Append(mismatched, rows[i]) ELSE mismatched)

\* cr.update_column_names(data, column_names, match_row_lengths, get_mismatched_row_lengths);
\* packed tells that the namedtuple of both data sets is returned
update_column_names(rows, column_names, match_row_lengths, get_mismatched_row_lengths) ==
    UpdateLoop(rows, 1, column_names, match_row_lengths, get_mismatched_row_lengths, <<>>, <<>>)

(***************************************************************************)
(* cr.extract_columns_data.  The keyword arguments **time_range are given  *)
(* as a record: time_column is None when the keyword is not passed, and    *)
(* has_from, has_to tell whether from_timestamp, to_timestamp are passed.  *)
(***************************************************************************)
\* the wall clock in UTC of an aware datetime
UtcClock(dt) == ShiftClock(dt, -dt.utcoffset, -dt.utcoffset_second, -dt.utcoffset_microsecond)

\* the instant of an aware datetime: the day of the calendar, the minute of
\* the day, the second and the microsecond of its wall clock in UTC
UtcInstant(dt) ==
    LET utc == UtcClock(dt)
    IN  <<ToOrdinal(utc.year, utc.month, utc.day), utc.hour * 60 + utc.minute,
          utc.second, utc.microsecond>>

\* s >= t for tuples of integers of one length, the first elements weighing most
RECURSIVE TupleGE(_, _)
TupleGE(s, t) ==
    IF Len(s) = 0 THEN TRUE
    ELSE IF Head(s) # Head(t) THEN Head(s) > Head(t)
    ELSE TupleGE(Tail(s), Tail(t))

\* a >= b for aware datetimes
DatetimeGE(a, b) == TupleGE(UtcInstant(a), UtcInstant(b))

\* datetime.utcnow().replace(tzinfo=pytz.utc), for the naive datetime that
\* utcnow() reads from the clock
utcnow(clock) == WithZone(clock, "UTC")

TimeRange(time_column, has_from, from_timestamp, has_to, to_timestamp) == [time_column |-> time_column, has_from |-> has_from, from_timestamp |-> from_timestamp, has_to |-> has_to, to_timestamp |-> to_timestamp]

\* bool(time_range): some keyword is passed
TimeRangeGiven(time_range) ==
    time_range.time_column # None \/ time_range.has_from \/ time_range.has_to

\* time_range.get('from_timestamp', datetime.fromtimestamp(0, pytz.UTC))
FromTimestamp(time_range) ==
    IF time_range.has_from THEN time_range.from_timestamp ELSE fromtimestamp0("UTC")

\* time_range.get('to_timestamp'), or the current time
ToTimestamp(time_range, clock) ==
    IF time_range.has_to THEN time_range.to_timestamp ELSE utcnow(clock)

\* Row([(name, value) for name, value in row.items() if name in column_names]),
\* or the whole row without column names
ExtractedRow(row, column_names) ==
    IF Len(column_names) > 0
        THEN SelectSeq(row, LAMBDA item : InList(item.name, column_names))
    ELSE row

ExtractOutcome(status, rows) == [status |-> status, rows |-> rows]

\* not time_column
NoTimeColumn(time_column) == ~Truthy(time_column)

\* the loop over the rows, from row i on
RECURSIVE ExtractLoop(_, _, _, _, _, _)
ExtractLoop(rows, i, column_names, time_range, clock, extracted) ==
    IF i > Len(rows) THEN ExtractOutcome("ok", extracted)
    ELSE IF ~TimeRangeGiven(time_range)
        THEN ExtractLoop(rows, i + 1, column_names, time_range, clock,
                         Append(extracted, ExtractedRow(rows[i], column_names)))
    ELSE IF ~Contains(rows[i], time_range.time_column)
        THEN ExtractOutcome("TimeColumnValueError", <<>>)
    ELSE IF /\ DatetimeGE(ToTimestamp(time_range, clock),
                          GetItem(rows[i], time_range.time_column).dt)
            /\ DatetimeGE(GetItem(rows[i], time_range.time_column).dt, FromTimestamp(time_range))
        THEN ExtractLoop(rows, i + 1, column_names, time_range, clock,
                         Append(extracted, ExtractedRow(rows[i], column_names)))
    ELSE ExtractLoop(rows, i + 1, column_names, time_range, clock, extracted)

\* cr.extract_columns_data(data, *column_names, **time_range), the clock
\* being read once before the loop
extract_columns_data(rows, column_names, time_range, clock) ==
    IF TimeRangeGiven(time_range) /\ NoTimeColumn(time_range.time_column)
        THEN ExtractOutcome("TimeColumnValueError", <<>>)
    ELSE ExtractLoop(rows, 1, column_names, time_range, clock, <<>>)

\* the call reaches datetime.utcnow(): a time range with a time column and
\* without to_timestamp
ReadsClock(time_range) ==
    /\ TimeRangeGiven(time_range)
    /\ ~NoTimeColumn(time_range.time_column)
    /\ ~time_range.has_to

\* the timestamps that the rows hold in the time column
RowTimestamps(rows, time_column) ==
    {GetItem(rows[k], time_column).dt :
        k \in {n \in 1..Len(rows) : Contains(rows[n], time_column)}}

\* what a clock in UTC shows at the instant of an aware datetime
NaiveUtc(dt) ==
    [UtcClock(dt) EXCEPT !.aware = FALSE, !.utcoffset = 0, !.utcoffset_second = 0,
                         !.utcoffset_microsecond = 0, !.tz = "naive"]

\* The clock can show any time when the call reads it.  The reading acts on
\* the call through the comparison with the timestamp of each row alone, so
\* every reading gives the outcome of one of these: the instant of the
\* timestamp of a row, and the microsecond before it.  Over rows without
\* timestamps every reading gives the same outcome, and a call that never
\* reads the clock has no reading.
ClockReadings(rows, time_range) ==
    IF ~ReadsClock(time_range) THEN {NoDatetime}
    ELSE IF RowTimestamps(rows, time_range.time_column) = {}
        THEN {Datetime(1970, 1, 1, 0, 0, 0)}
    ELSE {NaiveUtc(t) : t \in RowTimestamps(rows, time_range.time_column)}
         \cup {ShiftClock(NaiveUtc(t), 0, 0, -1) :
                    t \in RowTimestamps(rows, time_range.time_column)}

(***************************************************************************)
(* dataset.DataSet: the list _rows.  An element of the list is a Row or a  *)
(* value of another type; isinstance(x, Row) is the field is_row.          *)
(***************************************************************************)
RowElement(row) == [is_row |-> TRUE, row |-> row, other |-> None]

OtherElement(x) == [is_row |-> FALSE, row |-> <<>>, other |-> x]

\* DataSet._validate_rows(rows) raises nothing
ValidRows(elements) == \A i \in 1..Len(elements) : elements[i].is_row

DataSetOutcome(status, rows) == [status |-> status, rows |-> rows]

\* ds = DataSet(rows): the contents of ds after the statement; when the
\* constructor raises, ds is what it was
DataSet_init(old_rows, elements) ==
    IF Len(elements) > 0 /\ ~ValidRows(elements) THEN DataSetOutcome("TypeError", old_rows)
    ELSE DataSetOutcome("ok", elements)

\* DataSet.append(row)
DataSet_append(rows, x) ==
    IF ~x.is_row THEN DataSetOutcome("TypeError", rows)
    ELSE DataSetOutcome("ok", Append(rows, x))

\* DataSet.__setitem__(index, row) for an integer index, from -len on
DataSet_setitem(rows, index, x) ==
    IF ~x.is_row THEN DataSetOutcome("TypeError", rows)
    ELSE IF index >= Len(rows) \/ index < -Len(rows) THEN DataSetOutcome("IndexError", rows)
    ELSE DataSetOutcome("ok",
             [rows EXCEPT ![IF index >= 0 THEN index + 1 ELSE Len(rows) + index + 1] = x])

\* DataSet.__setitem__(slice(start, stop), row), 0 <= start <= stop <= len:
\* the list takes the elements the value yields when iterated, for a Row its keys
DataSet_setslice(rows, start, stop, x) ==
    IF ~x.is_row THEN DataSetOutcome("TypeError", rows)
    ELSE DataSetOutcome("ok",
             SubSeq(rows, 1, start)
             \o [j \in 1..Len(x.row) |-> OtherElement(x.row[j].name)]
             \o SubSeq(rows, stop + 1, Len(rows)))

(***************************************************************************)
(* devices.crbase.CRGeneric._parse_time_values                             *)
(***************************************************************************)
\* the try/except/else around datetime.strptime: the handler of ValueError
\* formats the name loc_dt, which is bound nowhere, after it has assigned
\* local_dt
CRGenericAfterStrptime(time_zone, parsed, ignore_parsing_error) ==
    IF parsed.status = "ValueError"
        THEN IF ignore_parsing_error THEN TimeRaised("NameError")
             ELSE TimeRaised("TimeParsingError")
    ELSE IF parsed.status # "ok" THEN TimeRaised(parsed.status)
    ELSE IF parsed.dt.aware THEN TimeReturned(parsed.dt)
    ELSE TimeReturned(localize(time_zone, parsed.dt))

CRGeneric_parse_time_values(time_zone, time_format_args_library, time_values, ignore_parsing_error, to_utc) ==
    LET info == CRGeneric_parse_custom_time_format(time_format_args_library, time_values)
        local == CRGenericAfterStrptime(time_zone,
                     strptime(info.parsed_time, info.parsed_time_format),
                     ignore_parsing_error)
    IN  IF local.status # "ok" THEN local
        ELSE IF to_utc THEN astimezone(local.dt, "UTC")
        ELSE local

(***************************************************************************)
(* The states before a call.                                               *)
(***************************************************************************)
ResolverNotCalled == ResolverRaised("none")

NoArgs ==
    [time_zone |-> "none", time_format_args_library |-> <<>>, time_columns |-> <<>>,
     time_parsed_column |-> None, replace_time_column |-> None, to_utc |-> FALSE]

ParseTimeNotCalled == [status |-> "none", data_converted |-> <<>>]

HMIdle == hm_arg = <<>> /\ hm_ret = NotCalled

RSIdle == rs_dev = "none" /\ rs_lib = <<>> /\ rs_vals = <<>> /\ rs_ret = ResolverNotCalled

PTIdle == data = <<>> /\ pt_args = NoArgs /\ pt_ret = ParseTimeNotCalled

NoTimeArgs ==
    [time_zone |-> "none", time_format_args_library |-> <<>>, time_values |-> <<>>,
     ignore_parsing_error |-> FALSE, to_utc |-> FALSE]

TimeNotCalled == TimeRaised("none")

TVIdle ==
    /\ tv_args = NoTimeArgs
    /\ tv_ret = TimeNotCalled
    /\ tv_local = TimeNotCalled
    /\ tv_again = TimeNotCalled

ReadNotCalled == ReadOutcome("none", <<>>)

CSVIdle == csv_file = NoFile /\ csv_data = <<>> /\ csv_log = <<>> /\ csv_read = ReadNotCalled

FLIdle == fl_data = <<>> /\ fl_ids = <<>> /\ fl_ret = FilterNotCalled

ArrayIdsNotCalled == ArrayIdsOutcome("none", <<>>)

MAIdle ==
    /\ ma_file = NoFile
    /\ ma_fix = FALSE
    /\ ma_names = <<>>
    /\ ma_mixed = ReadNotCalled
    /\ ma_split = ArrayIdsNotCalled

Paths == {"p", "q"}

NoFiles == [path \in Paths |-> NoFile]

ExportNotCalled == ExportOutcome("none", NoFiles)

EXIdle == ex_data = <<>> /\ ex_info = <<>> /\ ex_ret = ExportNotCalled

UpdateNotCalled == [status |-> "none", result |-> UpdatedColumnNamesResult(<<>>, <<>>, FALSE)]

UCIdle ==
    /\ uc_data = <<>>
    /\ uc_names = <<>>
    /\ uc_flags = <<FALSE, FALSE>>
    /\ uc_ret = UpdateNotCalled

NoTimeRange == TimeRange(None, FALSE, NoDatetime, FALSE, NoDatetime)

ExtractNotCalled == ExtractOutcome("none", <<>>)

ECIdle ==
    /\ ec_data = <<>>
    /\ ec_names = <<>>
    /\ ec_range = NoTimeRange
    /\ ec_ret = ExtractNotCalled

NoOperation == [op |-> "none", status |-> "none"]

DSIdle == ds_rows = <<>> /\ ds_prev = <<>> /\ ds_last = NoOperation /\ ds_ops = 0

ConvertNotCalled == [status |-> "none", data |-> <<>>]

CTIdle ==
    /\ ct_data = <<>>
    /\ ct_before = <<>>
    /\ ct_args = [time_column |-> None, to_time_zone |-> "none"]
    /\ ct_ret = ConvertNotCalled

POIdle == po_data = <<>> /\ po_columns = <<>> /\ po_ret = ParseTimeNotCalled

GTIdle == gt_args = NoTimeArgs /\ gt_ret = TimeNotCalled

XDIdle == xd_before = <<>>

(***************************************************************************)
(* Specification of the decoder: the argument is drawn from the strings    *)
(* the device emits (hour*100+minute without leading zeros) and from all   *)
(* short strings over a small alphabet, then the decoder is applied.       *)
(***************************************************************************)
HMAlphabet == {"0", "5", "9", "x"}

DeviceTimes == {Render(h * 100 + m) : h \in 0..23, m \in 0..59}

HMInputs == DeviceTimes \cup StringsUpTo(HMAlphabet, MaxLen)

InitHM ==
    /\ hm_arg \in HMInputs
    /\ hm_ret = NotCalled
    /\ RSIdle
    /\ PTIdle
    /\ TVIdle
    /\ CSVIdle
    /\ FLIdle
    /\ MAIdle
    /\ EXIdle
    /\ UCIdle
    /\ ECIdle
    /\ DSIdle
    /\ CTIdle
    /\ POIdle
    /\ GTIdle
    /\ XDIdle

CallParseHourMinute ==
    /\ hm_ret = NotCalled
    /\ hm_ret' = _parse_hourminute(hm_arg)
    /\ UNCHANGED <<hm_arg, rsVars, ptVars, tvVars, csvVars, flVars, maVars, exVars, ucVars, ecVars, dsVars, ctVars, poVars, gtVars, xdVars>>

NextHM == CallParseHourMinute

SpecHM == InitHM /\ [][NextHM]_vars

(***************************************************************************)
(* Specification of the resolvers: a variant, a library and raw values are *)
(* drawn, the parser is constructed with the library or, for a parser      *)
(* class, with a time zone alone, then the resolver is applied.  A         *)
(* construction that raises leaves no parser to apply a resolver with.     *)
(***************************************************************************)
Devices == {"cr", "CRGeneric", "CR10", "CR10X", "CR1000", "device.CR10X"}

TokH == <<"%", "H">>

LibTokens == {TokY, TokH, TokHM}

RawValues == {<<"5">>, <<"9", "4", "5">>, <<"2", "0", "1", "6">>,
              <<"1", "2", "3", "4", "5">>}

\* the i-th time value of a logger record: year, day of year, Hour/Minute, and
\* whatever the logger writes after them
LoggerValue(i) ==
    CASE i = 1 -> <<"2", "0", "1", "6">>
      [] i = 2 -> <<"1", "2", "3">>
      [] i = 3 -> <<"9", "4", "5">>
      [] OTHER -> Render(i)

LoggerRecords == {[i \in 1..n |-> LoggerValue(i)] : n \in 1..MaxLoggerVals}

InitRS ==
    /\ rs_dev \in Devices
    /\ \/ \E lib \in SeqsUpTo(LibTokens, MaxLib) :
              /\ ConstructLibrary(rs_dev, lib).status = "ok"
              /\ rs_lib = ConstructLibrary(rs_dev, lib).library
       \/ /\ rs_dev # "cr"
          /\ rs_lib = DefaultLibrary(rs_dev).library
    /\ rs_vals \in SeqsUpTo(RawValues, MaxVals) \cup LoggerRecords
    /\ rs_ret = ResolverNotCalled
    /\ HMIdle
    /\ PTIdle
    /\ TVIdle
    /\ CSVIdle
    /\ FLIdle
    /\ MAIdle
    /\ EXIdle
    /\ UCIdle
    /\ ECIdle
    /\ DSIdle
    /\ CTIdle
    /\ POIdle
    /\ GTIdle
    /\ XDIdle

CallResolver ==
    /\ rs_ret = ResolverNotCalled
    /\ rs_ret' = Resolve(rs_dev, rs_lib, rs_vals)
    /\ UNCHANGED <<hmVars, rs_dev, rs_lib, rs_vals, ptVars, tvVars, csvVars, flVars, maVars, exVars, ucVars, ecVars, dsVars, ctVars, poVars, gtVars, xdVars>>

NextRS == CallResolver

SpecRS == InitRS /\ [][NextRS]_vars

(***************************************************************************)
(* Specification of parse_time: a data set of string-valued rows, keyed by *)
(* names or by indices, is drawn; parse_time is called on it once with     *)
(* arguments drawn from the keys of that kind.                             *)
(***************************************************************************)
Names == <<"A", "B", "C", "D", "E", "F">>

\* the key of column j (from 0) of a data set keyed by names or by indices
KeyOf(kind, j) == IF kind = "int" THEN IntKey(j) ELSE StrKey(Names[j + 1])

\* a row of w columns whose values all convert ("good") or are all five digits
\* long ("bad"), different in every column
MkRow(kind, w, pattern) ==
    [j \in 1..w |->
        Item(KeyOf(kind, j - 1),
             StrValue(Render((IF pattern = "good" THEN 2015 ELSE 12340) + j)))]

RowsOfKind(kind) ==
    {MkRow(kind, MaxCols - 1, "good"), MkRow(kind, MaxCols, "good"),
     MkRow(kind, MaxCols, "bad")}

DataSets == SeqsUpTo(RowsOfKind("int"), MaxRows) \cup SeqsUpTo(RowsOfKind("str"), MaxRows)

KindOf(rows) == IF Len(rows) = 0 THEN "int" ELSE rows[1][1].name.kind

KeysOfKind(kind) == {KeyOf(kind, j) : j \in 0..(MaxCols - 1)}

LibYHM == <<TokY, TokHM>>

\* time zone, format library and to_utc of the calls
Profiles ==
    {[time_zone |-> "Etc/GMT-1", lib |-> LibYHM, to_utc |-> TRUE],
     [time_zone |-> "UTC", lib |-> <<>>, to_utc |-> FALSE],
     [time_zone |-> "Foo", lib |-> LibYHM, to_utc |-> FALSE]}

\* the names drawn for time_parsed_column, which is a str or None
ParsedColumnNames(kind) ==
    IF kind = "str" THEN {None, StrKey(Names[1]), StrKey("TIMESTAMP")}
    ELSE {None, StrKey("TIMESTAMP")}

ArgsFor(rows) ==
    LET kind == KindOf(rows)
    IN  {[time_zone |-> p.time_zone, time_format_args_library |-> p.lib,
          time_columns |-> tc, time_parsed_column |-> tpc,
          replace_time_column |-> rtc, to_utc |-> p.to_utc] :
            p \in Profiles,
            tc \in SeqsUpTo(KeysOfKind(kind), MaxTimeColumns),
            tpc \in ParsedColumnNames(kind),
            rtc \in {None, KeyOf(kind, 0), KeyOf(kind, MaxCols - 1)}}

Init ==
    /\ data \in DataSets
    /\ pt_args = NoArgs
    /\ pt_ret = ParseTimeNotCalled
    /\ HMIdle
    /\ RSIdle
    /\ TVIdle
    /\ CSVIdle
    /\ FLIdle
    /\ MAIdle
    /\ EXIdle
    /\ UCIdle
    /\ ECIdle
    /\ DSIdle
    /\ CTIdle
    /\ POIdle
    /\ GTIdle
    /\ XDIdle

CallParseTime ==
    /\ pt_ret = ParseTimeNotCalled
    /\ \E args \in ArgsFor(data) :
          LET outcome == parse_time(data, args)
          IN  /\ pt_args' = args
              /\ data' = outcome.data
              /\ pt_ret' = [status |-> outcome.status,
                            data_converted |-> outcome.data_converted]
    /\ UNCHANGED <<hmVars, rsVars, tvVars, csvVars, flVars, maVars, exVars, ucVars, ecVars, dsVars, ctVars, poVars, gtVars, xdVars>>

Next == CallParseTime

Spec == Init /\ [][Next]_vars

(***************************************************************************)
(* Specification of cr._parse_time_values: a time zone, a format library,  *)
(* raw time values and the two options are drawn; the function is called,  *)
(* then called again with to_utc=False, and a datetime returned in UTC is  *)
(* converted to UTC once more (cr._convert_time_zone).                     *)
(***************************************************************************)
TokZ == <<"%", "z">>

TVTokens == {TokY, TokHM, TokZ}

TVValues == {<<"2", "0", "1", "6">>, <<"0", "0", "0", "1">>, <<"9", "4", "5">>,
             <<"1", "2", "3", "4", "5">>, <<"+", "0", "1", "0", "0">>}

\* a month and a day without a year
TokMD == <<"%", "m", "%", "d">>

\* libraries without a year directive, and the 28th and the 29th of February
\* for them: 1900, the year of a date without a year, is no leap year
YearlessLibraries == {<<TokMD>>, <<TokMD, TokHM>>}

YearlessValues == {<<"0", "2", "2", "8">>, <<"0", "2", "2", "9">>, <<"9", "4", "5">>}

TVArgs ==
    {[time_zone |-> z, time_format_args_library |-> lib, time_values |-> values,
      ignore_parsing_error |-> ignore, to_utc |-> utc] :
        z \in DOMAIN ZoneOffsets, lib \in SeqsUpTo(TVTokens, MaxLib),
        values \in SeqsUpTo(TVValues, MaxVals), ignore \in BOOLEAN, utc \in BOOLEAN}
    \cup
    {[time_zone |-> z, time_format_args_library |-> lib, time_values |-> values,
      ignore_parsing_error |-> ignore, to_utc |-> utc] :
        z \in DOMAIN ZoneOffsets, lib \in YearlessLibraries,
        values \in SeqsUpTo(YearlessValues, MaxVals), ignore \in BOOLEAN, utc \in BOOLEAN}

\* cr._convert_time_zone(dt, to_time_zone)
_convert_time_zone(dt, to_time_zone) == astimezone(dt, to_time_zone)

InitTV ==
    /\ tv_args \in TVArgs
    /\ tv_ret = TimeNotCalled
    /\ tv_local = TimeNotCalled
    /\ tv_again = TimeNotCalled
    /\ HMIdle
    /\ RSIdle
    /\ PTIdle
    /\ CSVIdle
    /\ FLIdle
    /\ MAIdle
    /\ EXIdle
    /\ UCIdle
    /\ ECIdle
    /\ DSIdle
    /\ CTIdle
    /\ POIdle
    /\ GTIdle
    /\ XDIdle

CallParseTimeValues ==
    /\ tv_ret = TimeNotCalled
    /\ tv_ret' = _parse_time_values(tv_args.time_zone, tv_args.time_format_args_library,
                                    tv_args.time_values, tv_args.ignore_parsing_error,
                                    tv_args.to_utc)
    /\ UNCHANGED <<hmVars, rsVars, ptVars, tv_args, tv_local, tv_again, csvVars, flVars, maVars, exVars, ucVars, ecVars, dsVars, ctVars, poVars, gtVars, xdVars>>

CallParseTimeValuesLocal ==
    /\ tv_ret # TimeNotCalled
    /\ tv_local = TimeNotCalled
    /\ tv_local' = _parse_time_values(tv_args.time_zone, tv_args.time_format_args_library,
                                      tv_args.time_values, tv_args.ignore_parsing_error,
                                      FALSE)
    /\ UNCHANGED <<hmVars, rsVars, ptVars, tv_args, tv_ret, tv_again, csvVars, flVars, maVars, exVars, ucVars, ecVars, dsVars, ctVars, poVars, gtVars, xdVars>>

ConvertAgain ==
    /\ tv_ret.status = "ok"
    /\ tv_again = TimeNotCalled
    /\ tv_again' = _convert_time_zone(tv_ret.dt, "UTC")
    /\ UNCHANGED <<hmVars, rsVars, ptVars, tv_args, tv_ret, tv_local, csvVars, flVars, maVars, exVars, ucVars, ecVars, dsVars, ctVars, poVars, gtVars, xdVars>>

NextTV == CallParseTimeValues \/ CallParseTimeValuesLocal \/ ConvertAgain

SpecTV == InitTV /\ [][NextTV]_vars

(***************************************************************************)
(* Specification of an export to a new file followed by reading the file   *)
(* back: cr.export_to_csv(data, path) and cr.read_table_data(path), both   *)
(* with their default arguments.                                           *)
(***************************************************************************)
\* values of a column: plain, empty, a comma
CsvValues == {<<"7">>, <<>>, <<",">>}

CsvRows(kind, w) ==
    {[j \in 1..w |-> Item(KeyOf(kind, j - 1), StrValue(cells[j]))] :
        cells \in [1..w -> CsvValues]}

\* data sets of rows of w columns, keyed by names or by indices
CsvDataSets(kind, w) == SeqsUpTo(CsvRows(kind, w), MaxCsvRows)

\* values of a column that hold a carriage return, and a plain one
CarriageReturnValues == {<<"7">>, <<"\r">>, <<"7", "\r", "8">>}

\* data sets of rows of one such column
CarriageReturnDataSets(kind) ==
    SeqsUpTo({<<Item(KeyOf(kind, 0), StrValue(v))>> : v \in CarriageReturnValues}, MaxCsvRows)

ExportCall(export_header, mode, include_time_zone) ==
    [export_header |-> export_header, mode |-> mode, include_time_zone |-> include_time_zone]

InitCSV ==
    /\ csv_file = NoFile
    /\ \E kind \in {"int", "str"}, w \in 1..MaxCsvCols :
           csv_data \in CsvDataSets(kind, w) \cup CarriageReturnDataSets(kind)
    /\ csv_log = <<>>
    /\ csv_read = ReadNotCalled
    /\ HMIdle
    /\ RSIdle
    /\ PTIdle
    /\ TVIdle
    /\ FLIdle
    /\ MAIdle
    /\ EXIdle
    /\ UCIdle
    /\ ECIdle
    /\ DSIdle
    /\ CTIdle
    /\ POIdle
    /\ GTIdle
    /\ XDIdle

\* cr.export_to_csv(data, outfile_path)
ExportToNewFile ==
    /\ csv_log = <<>>
    /\ csv_file' = export_to_csv(csv_file, csv_data, FALSE, "a+", FALSE)
    /\ csv_log' = <<ExportCall(FALSE, "a+", FALSE)>>
    /\ UNCHANGED <<hmVars, rsVars, ptVars, tvVars, csv_data, csv_read, flVars, maVars, exVars, ucVars, ecVars, dsVars, ctVars, poVars, gtVars, xdVars>>

\* cr.read_table_data(infile_path)
ReadTableData ==
    /\ csv_read' = read_table_data(csv_file)
    /\ UNCHANGED <<hmVars, rsVars, ptVars, tvVars, csv_file, csv_data, csv_log, flVars, maVars, exVars, ucVars, ecVars, dsVars, ctVars, poVars, gtVars, xdVars>>

NextCSV == ExportToNewFile \/ ReadTableData

SpecCSV == InitCSV /\ [][NextCSV]_vars

(***************************************************************************)
(* Specification of repeated exports to one output path:                   *)
(* cr.export_to_csv(data, path, export_header, mode), any number of times  *)
(* up to MaxCalls, on a path that may hold a file already.                 *)
(***************************************************************************)
Modes == {"a", "a+", "w", "w+"}

\* a row of w named columns whose values need no quoting
PlainRow(w) == [j \in 1..w |-> Item(KeyOf("str", j - 1), StrValue(<<"7">>))]

HeaderDataSets(w) == SeqsUpTo({PlainRow(w)}, MaxCsvRows)

\* the header line of a data set, without its line end
HeaderLine(rows) == Join([j \in 1..Len(rows[1]) |-> KeyText(rows[1][j].name)], Comma)

\* what the output path may hold before the first call: nothing, an empty
\* file, a blank line, a line of data, or an earlier export with its header
FilesBefore(rows) ==
    {NoFile, FileOf(<<>>), FileOf(<<Newline>>), FileOf(CsvLine(<<<<"7">>>>)),
     export_to_csv(NoFile, rows, TRUE, "a+", FALSE)}

InitHD ==
    /\ \E w \in 1..MaxCsvCols : csv_data \in HeaderDataSets(w)
    /\ csv_file \in FilesBefore(csv_data)
    /\ csv_log = <<>>
    /\ csv_read = ReadNotCalled
    /\ HMIdle
    /\ RSIdle
    /\ PTIdle
    /\ TVIdle
    /\ FLIdle
    /\ MAIdle
    /\ EXIdle
    /\ UCIdle
    /\ ECIdle
    /\ DSIdle
    /\ CTIdle
    /\ POIdle
    /\ GTIdle
    /\ XDIdle

\* cr.export_to_csv(data, outfile_path, export_header, mode)
ExportToCsv ==
    /\ Len(csv_log) < MaxCalls
    /\ \E export_header \in BOOLEAN, mode \in Modes :
          /\ csv_file' = export_to_csv(csv_file, csv_data, export_header, mode, FALSE)
          /\ csv_log' = Append(csv_log, ExportCall(export_header, mode, FALSE))
    /\ UNCHANGED <<hmVars, rsVars, ptVars, tvVars, csv_data, csv_read, flVars, maVars, exVars, ucVars, ecVars, dsVars, ctVars, poVars, gtVars, xdVars>>

NextHD == ExportToCsv

SpecHD == InitHD /\ [][NextHD]_vars

(***************************************************************************)
(* Specification of the filter: cr.filter_mixed_array_data(data) and       *)
(* cr.filter_mixed_array_data(data, *array_ids) for a mixed-array DataSet, *)
(* whose rows are keyed by indices and start with their array id.  A blank *)
(* line of the logger file is a row without columns.                       *)
(***************************************************************************)
ArrayIds == {<<"2", "0", "1">>, <<"2", "0", "3">>}

\* the rows read_mixed_array_data yields: an array id followed by a value, an
\* array id alone, or nothing
MixedRows ==
    {<<>>}
    \cup {<<Item(IntKey(0), StrValue(a))>> : a \in ArrayIds}
    \cup {<<Item(IntKey(0), StrValue(a)), Item(IntKey(1), StrValue(<<v>>))>> :
             a \in ArrayIds, v \in {"7", "8"}}

InitFL ==
    /\ fl_data \in SeqsUpTo(MixedRows, MaxMixedRows)
    /\ fl_ids \in SeqsUpTo({StrValue(a) : a \in ArrayIds}, MaxArrayIds)
    /\ fl_ret = FilterNotCalled
    /\ HMIdle
    /\ RSIdle
    /\ PTIdle
    /\ TVIdle
    /\ CSVIdle
    /\ MAIdle
    /\ EXIdle
    /\ UCIdle
    /\ ECIdle
    /\ DSIdle
    /\ CTIdle
    /\ POIdle
    /\ GTIdle
    /\ XDIdle

CallFilter ==
    /\ fl_ret = FilterNotCalled
    /\ fl_ret' = filter_mixed_array_data(fl_data, fl_ids)
    /\ UNCHANGED <<hmVars, rsVars, ptVars, tvVars, csvVars, fl_data, fl_ids, maVars, exVars, ucVars, ecVars, dsVars, ctVars, poVars, gtVars, xdVars>>

NextFL == CallFilter

SpecFL == InitFL /\ [][NextFL]_vars

(***************************************************************************)
(* Specification of the mixed-array reader on one line: an array id and a  *)
(* token drawn from the strings over point, minus and a digit, read with   *)
(* fix_floats on or off.  The line ends as a logger file written on any    *)
(* platform may: with "\n", "\r\n" or "\r".                                *)
(***************************************************************************)
TokenAlphabet == {".", "-", "5"}

LineEnds == {<<Newline>>, <<"\r", Newline>>, <<"\r">>}

LineOfToken(token, line_end) == <<"2", "0", "1", ",">> \o token \o line_end

InitFF ==
    /\ \E token \in StringsUpTo(TokenAlphabet, MaxTokenLen), line_end \in LineEnds :
           ma_file = FileOf(LineOfToken(token, line_end))
    /\ ma_fix \in BOOLEAN
    /\ ma_names = <<>>
    /\ ma_mixed = ReadNotCalled
    /\ ma_split = ArrayIdsNotCalled
    /\ HMIdle
    /\ RSIdle
    /\ PTIdle
    /\ TVIdle
    /\ CSVIdle
    /\ FLIdle
    /\ EXIdle
    /\ UCIdle
    /\ ECIdle
    /\ DSIdle
    /\ CTIdle
    /\ POIdle
    /\ GTIdle
    /\ XDIdle

\* cr.read_mixed_array_data(infile_path, fix_floats=fix_floats)
ReadMixedArrayData ==
    /\ ma_mixed = ReadNotCalled
    /\ ma_mixed' = read_mixed_array_data(ma_file, ma_fix)
    /\ UNCHANGED <<hmVars, rsVars, ptVars, tvVars, csvVars, flVars, ma_file, ma_fix, ma_names, ma_split, exVars, ucVars, ecVars, dsVars, ctVars, poVars, gtVars, xdVars>>

NextFF == ReadMixedArrayData

SpecFF == InitFF /\ [][NextFF]_vars

(***************************************************************************)
(* Specification of the two readers on one file: the file is a sequence of *)
(* logger lines (two arrays and a blank line) that end the same way, the   *)
(* lookup table names some of the array ids.                               *)
(***************************************************************************)
FileLines == {<<"2", "0", "1", ",", "7">>, <<"2", "0", "3", ",", "8">>, <<>>}

RECURSIVE TextOf(_, _)
TextOf(lines, line_end) ==
    IF Len(lines) = 0 THEN <<>> ELSE lines[1] \o line_end \o TextOf(Tail(lines), line_end)

ArrayNames == {<<"A">>, <<"B">>, <<"2", "0", "3">>, <<>>}

\* lookup tables: every array id at most once
LookupTables ==
    {t \in SeqsUpTo({NameOf(StrValue(a), StrValue(n)) : a \in ArrayIds, n \in ArrayNames}, MaxNames) :
        \A i, j \in 1..Len(t) : t[i].array_id = t[j].array_id => i = j}

InitAI ==
    /\ \E lines \in SeqsUpTo(FileLines, MaxFileLines), line_end \in LineEnds :
           ma_file = FileOf(TextOf(lines, line_end))
    /\ ma_fix = TRUE
    /\ ma_names \in LookupTables
    /\ ma_mixed = ReadNotCalled
    /\ ma_split = ArrayIdsNotCalled
    /\ HMIdle
    /\ RSIdle
    /\ PTIdle
    /\ TVIdle
    /\ CSVIdle
    /\ FLIdle
    /\ EXIdle
    /\ UCIdle
    /\ ECIdle
    /\ DSIdle
    /\ CTIdle
    /\ POIdle
    /\ GTIdle
    /\ XDIdle

\* cr.read_array_ids_data(infile_path, array_id_names=array_id_names)
ReadArrayIdsData ==
    /\ ma_split = ArrayIdsNotCalled
    /\ ma_split' = read_array_ids_data(ma_file, ma_fix, ma_names)
    /\ UNCHANGED <<hmVars, rsVars, ptVars, tvVars, csvVars, flVars, ma_file, ma_fix, ma_names, ma_mixed, exVars, ucVars, ecVars, dsVars, ctVars, poVars, gtVars, xdVars>>

NextAI == ReadMixedArrayData \/ ReadArrayIdsData

SpecAI == InitAI /\ [][NextAI]_vars

(***************************************************************************)
(* Specification of cr.export_array_ids_to_csv: data holds the rows of     *)
(* some arrays, array_ids_info export information of every kind for some   *)
(* array ids; no output file exists before the call.                       *)
(***************************************************************************)
ExportInfos == {InfoNone, InfoEmpty, InfoWithoutPath} \cup {InfoWithPath(path) : path \in Paths}

\* the group of an array id: one row that starts with the array id
GroupOfArray(a) == Group(StrValue(a), <<<<Item(IntKey(0), StrValue(a)), Item(IntKey(1), StrValue(<<"7">>))>>>>)

UniqueArrayIds(items) == \A i, j \in 1..Len(items) : items[i].array_id = items[j].array_id => i = j

InitEX ==
    /\ ex_data \in {groups \in SeqsUpTo({GroupOfArray(a) : a \in ArrayIds}, MaxGroups) :
                       UniqueArrayIds(groups)}
    /\ ex_info \in {items \in SeqsUpTo({InfoOf(StrValue(a), info) : a \in ArrayIds, info \in ExportInfos}, MaxInfos) :
                       UniqueArrayIds(items)}
    /\ ex_ret = ExportNotCalled
    /\ HMIdle
    /\ RSIdle
    /\ PTIdle
    /\ TVIdle
    /\ CSVIdle
    /\ FLIdle
    /\ MAIdle
    /\ UCIdle
    /\ ECIdle
    /\ DSIdle
    /\ CTIdle
    /\ POIdle
    /\ GTIdle
    /\ XDIdle

\* cr.export_array_ids_to_csv(data, array_ids_info)
CallExportArrayIds ==
    /\ ex_ret = ExportNotCalled
    /\ ex_ret' = export_array_ids_to_csv(ex_data, ex_info, NoFiles, FALSE)
    /\ UNCHANGED <<hmVars, rsVars, ptVars, tvVars, csvVars, flVars, maVars, ex_data, ex_info, ucVars, ecVars, dsVars, ctVars, poVars, gtVars, xdVars>>

NextEX == CallExportArrayIds

SpecEX == InitEX /\ [][NextEX]_vars

(***************************************************************************)
(* Specification of cr.update_column_names: rows of different widths,      *)
(* keyed by names or by indices, and new column names that may repeat.     *)
(***************************************************************************)
UcRows == {MkRow(kind, w, "good") : kind \in {"int", "str"}, w \in 0..MaxUcCols}

NewNames == {StrKey("X"), StrKey("Y")}

InitUC ==
    /\ uc_data \in SeqsUpTo(UcRows, MaxUcRows)
    /\ uc_names \in SeqsUpTo(NewNames, MaxColumnNames)
    /\ uc_flags \in BOOLEAN \X BOOLEAN
    /\ uc_ret = UpdateNotCalled
    /\ HMIdle
    /\ RSIdle
    /\ PTIdle
    /\ TVIdle
    /\ CSVIdle
    /\ FLIdle
    /\ MAIdle
    /\ EXIdle
    /\ ECIdle
    /\ DSIdle
    /\ CTIdle
    /\ POIdle
    /\ GTIdle
    /\ XDIdle

\* cr.update_column_names(data, column_names, match_row_lengths, get_mismatched_row_lengths)
CallUpdateColumnNames ==
    /\ uc_ret = UpdateNotCalled
    /\ uc_ret' = [status |-> "ok",
                  result |-> update_column_names(uc_data, uc_names, uc_flags[1], uc_flags[2])]
    /\ UNCHANGED <<hmVars, rsVars, ptVars, tvVars, csvVars, flVars, maVars, exVars, uc_data, uc_names, uc_flags, ecVars, dsVars, ctVars, poVars, gtVars, xdVars>>

NextUC == CallUpdateColumnNames

SpecUC == InitUC /\ [][NextUC]_vars

(***************************************************************************)
(* Specification of cr.extract_columns_data: rows of a timestamp and a     *)
(* value, the timestamp in the first or in the second column, keyed by     *)
(* names or by indices; the time range names the timestamp column, a       *)
(* column no row has, or no column.                                        *)
(***************************************************************************)
\* 2016-05-02 12:00, 13:00 and 14:00 UTC, and 14:00 one hour east of UTC
Timestamps ==
    {localize("UTC", Datetime(2016, 5, 2, h, 0, 0)) : h \in 12..14}
    \cup {localize("Etc/GMT-1", Datetime(2016, 5, 2, 14, 0, 0))}

\* a row with its timestamp in column p (from 0)
TimedRow(kind, p, t) ==
    [j \in 1..2 |->
        Item(KeyOf(kind, j - 1),
             IF j - 1 = p THEN DatetimeValue(t) ELSE StrValue(<<"7">>))]

TimedDataSets(kind, p) == SeqsUpTo({TimedRow(kind, p, t) : t \in Timestamps}, MaxEcRows)

InitEC ==
    /\ \E kind \in {"int", "str"}, p \in 0..1 :
          /\ ec_data \in TimedDataSets(kind, p)
          /\ ec_names \in {<<>>, <<KeyOf(kind, 0)>>, <<KeyOf(kind, 1)>>}
          /\ \E time_column \in {None, KeyOf(kind, p), KeyOf(kind, 2)},
                has_from \in BOOLEAN, has_to \in BOOLEAN, from_timestamp \in Timestamps, to_timestamp \in Timestamps :
                ec_range = TimeRange(time_column,
                                     has_from, IF has_from THEN from_timestamp ELSE NoDatetime,
                                     has_to, IF has_to THEN to_timestamp ELSE NoDatetime)
    /\ ec_ret = ExtractNotCalled
    /\ HMIdle
    /\ RSIdle
    /\ PTIdle
    /\ TVIdle
    /\ CSVIdle
    /\ FLIdle
    /\ MAIdle
    /\ EXIdle
    /\ UCIdle
    /\ DSIdle
    /\ CTIdle
    /\ POIdle
    /\ GTIdle
    /\ XDIdle

\* cr.extract_columns_data(data, *column_names, **time_range)
CallExtractColumnsData ==
    /\ ec_ret = ExtractNotCalled
    /\ \E clock \in ClockReadings(ec_data, ec_range) :
          ec_ret' = extract_columns_data(ec_data, ec_names, ec_range, clock)
    /\ UNCHANGED <<hmVars, rsVars, ptVars, tvVars, csvVars, flVars, maVars, exVars, ucVars, ec_data, ec_names, ec_range, dsVars, ctVars, poVars, gtVars, xdVars>>

NextEC == CallExtractColumnsData

SpecEC == InitEC /\ [][NextEC]_vars

(***************************************************************************)
(* Specification of dataset.DataSet: ds = DataSet() followed by up to       *)
(* MaxDsOps constructions, appends and item assignments of Rows and of     *)
(* values that are no Rows.                                                *)
(***************************************************************************)
DsValues ==
    {RowElement(<<Item(StrKey("A"), StrValue(<<"7">>))>>),
     RowElement(<<Item(IntKey(0), StrValue(<<"7">>)), Item(IntKey(1), StrValue(<<"8">>))>>),
     OtherElement(IntKey(1))}

InitDS ==
    /\ ds_rows = <<>>
    /\ ds_prev = <<>>
    /\ ds_last = NoOperation
    /\ ds_ops = 0
    /\ HMIdle
    /\ RSIdle
    /\ PTIdle
    /\ TVIdle
    /\ CSVIdle
    /\ FLIdle
    /\ MAIdle
    /\ EXIdle
    /\ UCIdle
    /\ ECIdle
    /\ CTIdle
    /\ POIdle
    /\ GTIdle
    /\ XDIdle

\* the effect of an operation with the given outcome on ds
Operated(op, outcome) ==
    /\ ds_ops < MaxDsOps
    /\ ds_rows' = outcome.rows
    /\ ds_prev' = ds_rows
    /\ ds_last' = [op |-> op, status |-> outcome.status]
    /\ ds_ops' = ds_ops + 1
    /\ UNCHANGED <<hmVars, rsVars, ptVars, tvVars, csvVars, flVars, maVars, exVars, ucVars, ecVars, ctVars, poVars, gtVars, xdVars>>

\* ds = DataSet(rows)
Construct == \E elements \in SeqsUpTo(DsValues, MaxDsRows) : Operated("init", DataSet_init(ds_rows, elements))

\* ds.append(x)
AppendRow == \E x \in DsValues : Operated("append", DataSet_append(ds_rows, x))

\* ds[index] = x
AssignItem ==
    \E x \in DsValues, index \in (-Len(ds_rows) - 1)..Len(ds_rows) :
        Operated("setitem", DataSet_setitem(ds_rows, index, x))

\* ds[start:stop] = x
AssignSlice ==
    \E x \in DsValues, start \in 0..Len(ds_rows) :
        \E stop \in start..Len(ds_rows) :
            Operated("setslice", DataSet_setslice(ds_rows, start, stop, x))

NextDS == Construct \/ AppendRow \/ AssignItem \/ AssignSlice

SpecDS == InitDS /\ [][NextDS]_vars

(***************************************************************************)
(* cr.convert_time_zone, and its specification: rows of an aware timestamp *)
(* and a value, the time column of the rows or a column no row has, and a  *)
(* target zone that pytz knows or does not know.  A timestamp that the     *)
(* target zone cannot express ends the call with OverflowError, the rows   *)
(* before it converted.                                                    *)
(***************************************************************************)
\* a conversion that returns the converted column alone
ConvertRowTimeZoneDroppingColumns(row, time_column, to_time_zone) ==
    <<Item(time_column,
           DatetimeValue(_convert_time_zone(GetItem(row, time_column).dt, to_time_zone).dt))>>

\* row[time_column] = _convert_time_zone(row.get(time_column), pytz_to_time_zone)
ConvertRowTimeZone(row, time_column, to_time_zone) ==
    SetItem(row, time_column,
            DatetimeValue(_convert_time_zone(GetItem(row, time_column).dt, to_time_zone).dt))

ConvertOutcome(status, returned, rows) == [status |-> status, data |-> returned, rows |-> rows]

\* the loop over the rows, from row i on: rows are the rows of the data set
\* passed in, which the loop changes in place
RECURSIVE ConvertLoop(_, _, _, _, _)
ConvertLoop(rows, i, time_column, to_time_zone, converted) ==
    IF i > Len(rows) THEN ConvertOutcome("ok", converted, rows)
    ELSE IF ~Contains(rows[i], time_column)
        THEN ConvertOutcome("AttributeError", <<>>, rows)
    ELSE IF _convert_time_zone(GetItem(rows[i], time_column).dt, to_time_zone).status # "ok"
        THEN ConvertOutcome(
                 _convert_time_zone(GetItem(rows[i], time_column).dt, to_time_zone).status,
                 <<>>, rows)
    ELSE ConvertLoop([rows EXCEPT ![i] = ConvertRowTimeZone(rows[i], time_column, to_time_zone)],
                     i + 1, time_column, to_time_zone,
                     Append(converted, ConvertRowTimeZone(rows[i], time_column, to_time_zone)))

\* cr.convert_time_zone(data, time_column, to_time_zone): the outcome, the
\* DataSet returned and the rows of data after the call
convert_time_zone(rows, time_column, to_time_zone) ==
    IF ~IsPytzTimeZone(to_time_zone) THEN ConvertOutcome("UnknownPytzTimeZoneError", <<>>, rows)
    ELSE ConvertLoop(rows, 1, time_column, to_time_zone, <<>>)

\* the timestamps of the rows converted: those of the rows extracted from, and
\* the last half hour of the calendar in UTC, which is past the end of the
\* calendar east of UTC
ConvertTimestamps == Timestamps \cup {localize("UTC", Datetime(9999, 12, 31, 23, 30, 0))}

ConvertDataSets(kind, p) ==
    SeqsUpTo({TimedRow(kind, p, t) : t \in ConvertTimestamps}, MaxEcRows)

InitCT ==
    /\ \E kind \in {"int", "str"}, p \in 0..1 :
          /\ ct_data \in ConvertDataSets(kind, p)
          /\ \E time_column \in {KeyOf(kind, p), KeyOf(kind, 2)},
                to_time_zone \in {"UTC", "Etc/GMT-1", "Foo"} :
                ct_args = [time_column |-> time_column, to_time_zone |-> to_time_zone]
    /\ ct_before = ct_data
    /\ ct_ret = ConvertNotCalled
    /\ HMIdle
    /\ RSIdle
    /\ PTIdle
    /\ TVIdle
    /\ CSVIdle
    /\ FLIdle
    /\ MAIdle
    /\ EXIdle
    /\ UCIdle
    /\ ECIdle
    /\ DSIdle
    /\ POIdle
    /\ GTIdle
    /\ XDIdle

\* cr.convert_time_zone(data, time_column, to_time_zone)
CallConvertTimeZone ==
    /\ ct_ret = ConvertNotCalled
    /\ ct_ret' = [status |-> convert_time_zone(ct_data, ct_args.time_column, ct_args.to_time_zone).status,
                  data |-> convert_time_zone(ct_data, ct_args.time_column, ct_args.to_time_zone).data]
    /\ ct_data' = convert_time_zone(ct_data, ct_args.time_column, ct_args.to_time_zone).rows
    /\ UNCHANGED <<hmVars, rsVars, ptVars, tvVars, csvVars, flVars, maVars, exVars, ucVars, ecVars, dsVars, ct_before, ct_args, poVars, gtVars, xdVars>>

NextCT == CallConvertTimeZone

SpecCT == InitCT /\ [][NextCT]_vars

(***************************************************************************)
(* Specification of two cr.parse_time calls that differ in the order of    *)
(* time_columns only: a row of year, day of year and Hour/Minute whose     *)
(* columns stand in any order (or of year and Hour/Minute alone), a format *)
(* library of three tokens, and two time_columns lists with the same       *)
(* members and the same first element, each call on its own copy of the    *)
(* data set.  The first list names no column twice, the second is any list *)
(* with its members and first element; two lists with repetitions are      *)
(* compared through the list without repetitions that both are drawn with. *)
(***************************************************************************)
LibYJHM == <<TokY, TokJ, TokHM>>

\* the values of a logger record under the keys given, in the order given
OrderRow(keys) == [j \in 1..Len(keys) |-> Item(keys[j], StrValue(LoggerValue(j)))]

\* the keys of the three time columns
OrderKeys(kind) == {KeyOf(kind, j) : j \in 0..2}

\* the keys of the three time columns in every order, and two of them
KeyOrders(kind) ==
    {keys \in [1..3 -> OrderKeys(kind)] : \A i, j \in 1..3 : i # j => keys[i] # keys[j]}
    \cup {<<KeyOf(kind, 0), KeyOf(kind, 2)>>}

TimeColumnLists(kind) == SeqsUpTo(OrderKeys(kind), MaxOrderColumns) \ {<<>>}

\* list names no column twice
Injective(list) == \A i, j \in 1..Len(list) : i # j => list[i] # list[j]

Members(list) == {list[i] : i \in 1..Len(list)}

SameMembersAndFirst(a, b) == Members(a) = Members(b) /\ a[1] = b[1]

OrderArgs(time_columns, time_parsed_column, replace_time_column) ==
    [time_zone |-> "UTC", time_format_args_library |-> LibYJHM,
     time_columns |-> time_columns, time_parsed_column |-> time_parsed_column,
     replace_time_column |-> replace_time_column, to_utc |-> FALSE]

InitPO ==
    /\ \E kind \in {"int", "str"} :
          /\ \E keys \in KeyOrders(kind) : data = <<OrderRow(keys)>>
          /\ \E listed \in TimeColumnLists(kind), reordered \in TimeColumnLists(kind),
                tpc \in {None, StrKey("TIMESTAMP")}, rtc \in {None, KeyOf(kind, 2)} :
                /\ Injective(listed)
                /\ SameMembersAndFirst(listed, reordered)
                /\ pt_args = OrderArgs(listed, tpc, rtc)
                /\ po_columns = reordered
    /\ po_data = data
    /\ pt_ret = ParseTimeNotCalled
    /\ po_ret = ParseTimeNotCalled
    /\ HMIdle
    /\ RSIdle
    /\ TVIdle
    /\ CSVIdle
    /\ FLIdle
    /\ MAIdle
    /\ EXIdle
    /\ UCIdle
    /\ ECIdle
    /\ DSIdle
    /\ CTIdle
    /\ GTIdle
    /\ XDIdle

\* cr.parse_time(data, ..., time_columns=listed, ...)
ParseTimeListed ==
    /\ pt_args.time_zone # "none"
    /\ pt_ret = ParseTimeNotCalled
    /\ pt_ret' = [status |-> parse_time(data, pt_args).status,
                  data_converted |-> parse_time(data, pt_args).data_converted]
    /\ data' = parse_time(data, pt_args).data
    /\ UNCHANGED <<hmVars, rsVars, tvVars, csvVars, flVars, maVars, exVars, ucVars, ecVars, dsVars, ctVars, pt_args, poVars, gtVars, xdVars>>

\* cr.parse_time(data, ..., time_columns=reordered, ...) on the equal data set
ParseTimeReordered ==
    /\ pt_args.time_zone # "none"
    /\ po_ret = ParseTimeNotCalled
    /\ po_ret' = [status |-> parse_time(po_data, [pt_args EXCEPT !.time_columns = po_columns]).status,
                  data_converted |-> parse_time(po_data, [pt_args EXCEPT !.time_columns = po_columns]).data_converted]
    /\ po_data' = parse_time(po_data, [pt_args EXCEPT !.time_columns = po_columns]).data
    /\ UNCHANGED <<hmVars, rsVars, ptVars, tvVars, csvVars, flVars, maVars, exVars, ucVars, ecVars, dsVars, ctVars, po_columns, gtVars, xdVars>>

NextPO == ParseTimeListed \/ ParseTimeReordered

SpecPO == InitPO /\ [][NextPO]_vars

(***************************************************************************)
(* Specification of CRGeneric._parse_time_values: a parser with a time     *)
(* zone and a format library is called with raw time values and the two    *)
(* options.                                                                *)
(***************************************************************************)
InitGT ==
    /\ gt_args \in TVArgs
    /\ gt_ret = TimeNotCalled
    /\ HMIdle
    /\ RSIdle
    /\ PTIdle
    /\ TVIdle
    /\ CSVIdle
    /\ FLIdle
    /\ MAIdle
    /\ EXIdle
    /\ UCIdle
    /\ ECIdle
    /\ DSIdle
    /\ CTIdle
    /\ POIdle
    /\ XDIdle

\* CRGeneric(time_zone, library)._parse_time_values(*time_values, **parsing_info)
CallCRGenericParseTimeValues ==
    /\ gt_ret = TimeNotCalled
    /\ gt_ret' = CRGeneric_parse_time_values(gt_args.time_zone, gt_args.time_format_args_library,
                                             gt_args.time_values, gt_args.ignore_parsing_error,
                                             gt_args.to_utc)
    /\ UNCHANGED <<hmVars, rsVars, ptVars, tvVars, csvVars, flVars, maVars, exVars, ucVars, ecVars, dsVars, ctVars, poVars, gt_args, xdVars>>

NextGT == CallCRGenericParseTimeValues

SpecGT == InitGT /\ [][NextGT]_vars

(***************************************************************************)
(* Specification of repeated exports of one DataSet that holds timestamps: *)
(* cr.export_to_csv is called up to MaxCalls times on the same DataSet and *)
(* output path, each time with its own export_header, mode and             *)
(* include_time_zone.                                                      *)
(***************************************************************************)
InitXD ==
    /\ \E kind \in {"int", "str"}, p \in 0..1 : csv_data \in TimedDataSets(kind, p)
    /\ xd_before = csv_data
    /\ csv_file = NoFile
    /\ csv_log = <<>>
    /\ csv_read = ReadNotCalled
    /\ HMIdle
    /\ RSIdle
    /\ PTIdle
    /\ TVIdle
    /\ FLIdle
    /\ MAIdle
    /\ EXIdle
    /\ UCIdle
    /\ ECIdle
    /\ DSIdle
    /\ CTIdle
    /\ POIdle
    /\ GTIdle

\* cr.export_to_csv(data, outfile_path, export_header, mode, include_time_zone)
ExportTimedData ==
    /\ Len(csv_log) < MaxCalls
    /\ \E export_header \in BOOLEAN, mode \in {"a+", "w"}, include_time_zone \in BOOLEAN :
          /\ csv_file' = export_to_csv(csv_file, csv_data, export_header, mode, include_time_zone)
          /\ csv_data' = DataAfterExport(csv_file, csv_data, export_header, include_time_zone)
          /\ csv_log' = Append(csv_log, ExportCall(export_header, mode, include_time_zone))
    /\ UNCHANGED <<hmVars, rsVars, ptVars, tvVars, csv_read, flVars, maVars, exVars, ucVars, ecVars, dsVars, ctVars, poVars, gtVars, xdVars>>

NextXD == ExportTimedData

SpecXD == InitXD /\ [][NextXD]_vars

(***************************************************************************)
(* Claims about cr.parse_time, checked under Spec.                         *)
(***************************************************************************)
ParseTimeReturned == pt_ret.status = "ok"

\* position of a key in a row (0 when absent)
Pos(row, name) ==
    IF Contains(row, name) THEN CHOOSE i \in 1..Len(row) : row[i].name = name ELSE 0

Distinct(seq) == \A i, j \in 1..Len(seq) : seq[i] = seq[j] => i = j

\* the insertion key and the output key of a call, as the arguments state them
GivenInsertionKey(args) ==
    IF args.replace_time_column # None THEN args.replace_time_column
    ELSE args.time_columns[1]

GivenOutputKey(args) ==
    IF args.time_parsed_column # None THEN args.time_parsed_column
    ELSE GivenInsertionKey(args)

KeyCountAsClaimed(i) ==
    Len(pt_ret.data_converted[i]) = Len(data[i]) - Len(pt_args.time_columns) + 1

\* C1 as stated: every row returned by parse_time has (columns of the input
\* row) - len(time_columns) + 1 keys, whatever the arguments.
C1_KeyCountAlways ==
    ParseTimeReturned => \A i \in 1..Len(pt_ret.data_converted) : KeyCountAsClaimed(i)

\* C1 amended: a row returned by parse_time has (columns of the input row) -
\* len(time_columns) + 1 keys when the entries of time_columns are distinct keys
\* of the row, replace_time_column (if given) is one of them and
\* time_parsed_column (if given) does not name a column of the row that is not
\* a time column.
C1_KeyCount ==
    ParseTimeReturned =>
        \A i \in 1..Len(pt_ret.data_converted) :
            ( /\ Distinct(pt_args.time_columns)
              /\ \A k \in 1..Len(pt_args.time_columns) :
                    Contains(data[i], pt_args.time_columns[k])
              /\ pt_args.replace_time_column # None =>
                    InList(pt_args.replace_time_column, pt_args.time_columns)
              /\ pt_args.time_parsed_column # None =>
                    \/ ~Contains(data[i], pt_args.time_parsed_column)
                    \/ InList(pt_args.time_parsed_column, pt_args.time_columns) )
            => KeyCountAsClaimed(i)

\* C1 witness: two time columns of a three-column row were replaced by one
\* timestamp column named by time_parsed_column.
C1_Witness ==
    /\ ParseTimeReturned
    /\ Len(pt_args.time_columns) = 2
    /\ Distinct(pt_args.time_columns)
    /\ pt_args.time_parsed_column = StrKey("TIMESTAMP")
    /\ Len(data) >= 1
    /\ Len(data[1]) = 3
    /\ \A k \in 1..2 : Contains(data[1], pt_args.time_columns[k])
    /\ Len(pt_ret.data_converted[1]) = 2

\* C2 as stated: in every row returned the timestamp is stored under the output
\* key, every surviving column that preceded the insertion key precedes the
\* timestamp and every surviving column that followed it follows the timestamp.
C2_TimestampAtInsertionPosition ==
    ParseTimeReturned =>
        \A i \in 1..Len(pt_ret.data_converted) :
            LET row == data[i]
                out == pt_ret.data_converted[i]
                old == GivenInsertionKey(pt_args)
                new == GivenOutputKey(pt_args)
            IN  /\ Contains(out, new)
                /\ GetItem(out, new).kind = "datetime"
                /\ \A k \in 1..Len(row) :
                      LET name == row[k].name
                      IN  (name # old /\ name # new /\ Contains(out, name)) =>
                              /\ k < Pos(row, old) => Pos(out, name) < Pos(out, new)
                              /\ k > Pos(row, old) => Pos(out, name) > Pos(out, new)

\* C3 as stated: a replace_time_column k that is given (index 0 included) and is a
\* key of the row receives the timestamp; when k is not a key of the row the call
\* raises TimeColumnValueError.
C3_ReplaceColumnUsedWheneverGiven ==
    ( /\ pt_ret.status # "none"
      /\ IsPytzTimeZone(pt_args.time_zone)
      /\ Len(pt_args.time_columns) > 0
      /\ pt_args.replace_time_column # None ) =>
        /\ (Len(data) > 0 /\ ~Contains(data[1], pt_args.replace_time_column))
              => pt_ret.status = "TimeColumnValueError"
        /\ ParseTimeReturned =>
              \A i \in 1..Len(pt_ret.data_converted) :
                  /\ Contains(data[i], pt_args.replace_time_column)
                  /\ Pos(pt_ret.data_converted[i], GivenOutputKey(pt_args)) > 0
                  /\ GetItem(pt_ret.data_converted[i], GivenOutputKey(pt_args)).kind
                        = "datetime"

\* the items of a row whose keys are time columns, in the order of the row
TimeItems(row, args) == SelectSeq(row, LAMBDA item : InList(item.name, args.time_columns))

\* The timestamp that the time values of a row denote, read from their digits
\* where the library is empty or a year format followed by an Hour/Minute
\* format: the first value is the year and the second, of four digits, is
\* hour * 100 + minute; a value without a format and a format without a value
\* count for nothing, and without any pair the date is 1900-01-01 and the
\* time 00:00.  The wall clock is the one of the time zone of the call, which
\* is UTC or one hour east of it, and the one of UTC when to_utc is set.
DenotedTimestamp(row, args) ==
    LET items == TimeItems(row, args)
        n == IF Len(items) < Len(args.time_format_args_library)
                 THEN Len(items) ELSE Len(args.time_format_args_library)
        year == IF n >= 1 THEN ToInt(items[1].value.str) ELSE 1900
        hm == IF n >= 2 THEN ToInt(items[2].value.str) ELSE 0
        east == IF args.time_zone = "Etc/GMT-1" THEN 60 ELSE 0
        total == (hm \div 100) * 60 + (hm % 100) - (IF args.to_utc THEN east ELSE 0)
    IN  [year |-> IF total < 0 THEN year - 1 ELSE year,
         month |-> IF total < 0 THEN 12 ELSE 1,
         day |-> IF total < 0 THEN 31 ELSE 1,
         hour |-> (total % 1440) \div 60,
         minute |-> total % 60,
         utcoffset |-> IF args.to_utc THEN 0 ELSE east]

IsTimestamp(value, denoted) ==
    /\ value.kind = "datetime"
    /\ value.dt.year = denoted.year
    /\ value.dt.month = denoted.month
    /\ value.dt.day = denoted.day
    /\ value.dt.hour = denoted.hour
    /\ value.dt.minute = denoted.minute
    /\ value.dt.second = 0
    /\ value.dt.microsecond = 0
    /\ value.dt.aware
    /\ value.dt.utcoffset = denoted.utcoffset

\* C4: when parse_time returns, the result has one row per input row, row i being
\* the conversion of input row i (one of its items is the timestamp that the
\* time values of input row i denote, its other items are items of input row
\* i, and the columns of input row i that are neither time columns nor the
\* output key keep their values), and the call leaves the input data set and
\* its rows as they were.
C4_RowForRowAndInputUntouched ==
    [][ (pt_ret'.status # "none") =>
            /\ data' = data
            /\ pt_ret'.status = "ok" =>
                  /\ Len(pt_ret'.data_converted) = Len(data)
                  /\ \A i \in 1..Len(data) :
                        /\ \E k \in 1..Len(pt_ret'.data_converted[i]) :
                              /\ IsTimestamp(pt_ret'.data_converted[i][k].value,
                                             DenotedTimestamp(data[i], pt_args'))
                              /\ \A j \in 1..Len(pt_ret'.data_converted[i]) :
                                    j # k => \E m \in 1..Len(data[i]) :
                                                 pt_ret'.data_converted[i][j] = data[i][m]
                        /\ \A k \in 1..Len(data[i]) :
                              LET name == data[i][k].name
                              IN  ( /\ ~InList(name, pt_args'.time_columns)
                                    /\ name # pt_args'.time_parsed_column
                                    /\ name # pt_args'.replace_time_column ) =>
                                      /\ Contains(pt_ret'.data_converted[i], name)
                                      /\ GetItem(pt_ret'.data_converted[i], name)
                                            = data[i][k].value ]_vars

\* C4 witness: a data set of two rows whose time values differ was converted
\* into two rows with different timestamps, the second an hour before the
\* wall clock its row states, and the data set is as it was drawn.
C4_Witness ==
    /\ ParseTimeReturned
    /\ pt_args.to_utc
    /\ Len(data) = 2
    /\ Len(pt_ret.data_converted) = 2
    /\ Len(TimeItems(data[1], pt_args)) = 1
    /\ Len(TimeItems(data[2], pt_args)) = 2
    /\ data \in DataSets
    /\ \E k \in 1..Len(pt_ret.data_converted[1]) :
          IsTimestamp(pt_ret.data_converted[1][k].value,
                      [year |-> 2015, month |-> 12, day |-> 31, hour |-> 23,
                       minute |-> 0, utcoffset |-> 0])
    /\ \E k \in 1..Len(pt_ret.data_converted[2]) :
          /\ pt_ret.data_converted[2][k].value.kind = "datetime"
          /\ pt_ret.data_converted[2][k].value.dt.year = 2016
          /\ pt_ret.data_converted[2][k].value.dt.hour = 19

\* a format and a value that parse together: four digits of a year from 1 on
\* for the year format, and for the Hour/Minute format a value of one to four
\* digits that reads as hour * 100 + minute
PairParses(format, value) ==
    IF format = TokY
        THEN Len(value) = 4 /\ IsDigitString(value) /\ ToInt(value) >= 1
    ELSE /\ Len(value) \in 1..4
         /\ IsDigitString(value)
         /\ ToInt(value) \div 100 <= 23
         /\ ToInt(value) % 100 <= 59

\* the error the claim expects of a row, for a library of year and Hour/Minute
\* formats: the column to replace is not found, an Hour/Minute value has an
\* invalid length, or a pair of a format and a value cannot be parsed
ExpectedRowError(row, args) ==
    LET items == TimeItems(row, args)
        lib == args.time_format_args_library
        n == IF Len(items) < Len(lib) THEN Len(items) ELSE Len(lib)
        given == args.replace_time_column # None
    IN  IF given /\ ~Contains(row, args.replace_time_column) THEN "TimeColumnValueError"
        ELSE IF ~given /\ ~Contains(row, args.time_columns[1]) THEN "TimeColumnValueError"
        ELSE IF \E j \in 1..n : lib[j] = TokHM /\ Len(items[j].value.str) \notin 1..4
            THEN "TimeColumnValueError"
        ELSE IF \E j \in 1..n : ~PairParses(lib[j], items[j].value.str)
            THEN "TimeParsingError"
        ELSE "ok"

\* C5: if some row cannot be converted, parse_time raises TimeColumnValueError or
\* TimeParsingError and returns no row, not even the rows before the failing
\* one; the error is the one of the first such row (checked where
\* replace_time_column is a name, a non-zero index or absent, index 0 being the
\* case of C3); when it returns, every row was converted and none was skipped
\* or set to the epoch.
C5_AllOrNothing ==
    ( /\ pt_ret.status # "none"
      /\ IsPytzTimeZone(pt_args.time_zone)
      /\ Len(pt_args.time_columns) > 0 ) =>
        /\ \A i \in 1..Len(data) :
              ( /\ ExpectedRowError(data[i], pt_args) # "ok"
                /\ \A h \in 1..(i - 1) : ExpectedRowError(data[h], pt_args) = "ok" ) =>
                  /\ pt_ret.status \in {"TimeColumnValueError", "TimeParsingError"}
                  /\ ( \/ pt_args.replace_time_column = None
                       \/ Truthy(pt_args.replace_time_column) )
                        => pt_ret.status = ExpectedRowError(data[i], pt_args)
                  /\ pt_ret.data_converted = <<>>
        /\ ParseTimeReturned =>
              /\ Len(pt_ret.data_converted) = Len(data)
              /\ \A i \in 1..Len(data) :
                    /\ ExpectedRowError(data[i], pt_args) = "ok"
                    /\ \E k \in 1..Len(pt_ret.data_converted[i]) :
                          LET value == pt_ret.data_converted[i][k].value
                          IN  /\ value.kind = "datetime"
                              /\ value.dt.year # 1970
        /\ ~ParseTimeReturned => pt_ret.data_converted = <<>>

\* C5 witness: the first row converts, the second does not, and the call raised
\* without returning the first row.
C5_Witness ==
    /\ Len(data) = 2
    /\ pt_ret.status = "TimeParsingError"
    /\ ExpectedRowError(data[1], pt_args) = "ok"
    /\ ExpectedRowError(data[2], pt_args) = "TimeParsingError"
    /\ pt_ret.data_converted = <<>>

(***************************************************************************)
(* Claims about cr._parse_hourminute, checked under SpecHM.                *)
(***************************************************************************)
HourMinuteCalled == hm_ret.status # "none"

\* C6: for a digit string s of 1 to 4 characters the decoder returns four digit
\* characters: '000'+s, '00'+s, '0'+hour digit+minute digits, or s itself; and
\* for s = str(hour*100+minute) with hour in 0..23 and minute in 0..59 the first
\* two characters read as hour and the last two as minute.
C6_HourMinuteDecoded ==
    (HourMinuteCalled /\ IsDigitString(hm_arg) /\ Len(hm_arg) \in 1..4) =>
        /\ hm_ret.status = "ok"
        /\ Len(hm_ret.value) = 4
        /\ IsDigitString(hm_ret.value)
        /\ Len(hm_arg) = 1 => hm_ret.value = <<"0", "0", "0", hm_arg[1]>>
        /\ Len(hm_arg) = 2 => hm_ret.value = <<"0", "0", hm_arg[1], hm_arg[2]>>
        /\ Len(hm_arg) = 3 => hm_ret.value = <<"0", hm_arg[1], hm_arg[2], hm_arg[3]>>
        /\ Len(hm_arg) = 4 => hm_ret.value = hm_arg
        /\ \A hour \in 0..23, minute \in 0..59 :
              hm_arg = Render(hour * 100 + minute) =>
                  /\ ToInt(SubSeq(hm_ret.value, 1, 2)) = hour
                  /\ ToInt(SubSeq(hm_ret.value, 3, 4)) = minute

\* C6 witness: '945' was decoded to '0945'.
C6_Witness ==
    /\ hm_arg = <<"9", "4", "5">>
    /\ hm_ret = Returned(<<"0", "9", "4", "5">>)

\* C7: for a string of length 0 or of more than 4 characters the decoder raises
\* TimeColumnValueError and returns nothing.
C7_HourMinuteRaises ==
    (HourMinuteCalled /\ (Len(hm_arg) = 0 \/ Len(hm_arg) > 4)) =>
        hm_ret = Raised("TimeColumnValueError")

\* C7 witness: a string of five characters was refused.
C7_Witness ==
    /\ Len(hm_arg) = 5
    /\ hm_ret = Raised("TimeColumnValueError")

(***************************************************************************)
(* Claims about the resolvers, checked under SpecRS.                       *)
(***************************************************************************)
ResolverCalled == rs_ret.status # "none"

PairedCount == Min(Len(rs_lib), Len(rs_vals))

\* s.zfill(4), for s of at most four characters
ZeroFilled(s) == [i \in 1..(4 - Len(s)) |-> "0"] \o s

\* the value the resolver is to hand on for pair i
ResolvedValue(i) == IF rs_lib[i] = TokHM THEN ZeroFilled(rs_vals[i]) ELSE rs_vals[i]

UndecodablePair(i) == rs_lib[i] = TokHM /\ Len(rs_vals[i]) \notin 1..4

\* C8: cr._parse_custom_time_formats pairs L[i] with V[i] for i < min(len(L),
\* len(V)) only and returns the tokens of those pairs joined with ',' and the
\* (resolved) values of those pairs joined with ',', in order; what lies beyond
\* the shorter length is dropped and a difference in length raises no error: the
\* only error is the one of an Hour/Minute value that cannot be decoded.
C8_PairsUpToShorterLength ==
    (ResolverCalled /\ rs_dev = "cr") =>
        /\ (\A i \in 1..PairedCount : ~UndecodablePair(i)) =>
              /\ rs_ret.status = "ok"
              /\ Len(rs_ret.found_time_format_args) = PairedCount
              /\ Len(rs_ret.found_time_values) = PairedCount
              /\ rs_ret.parsed_time_format = Join(SubSeq(rs_lib, 1, PairedCount), Comma)
              /\ rs_ret.parsed_time
                    = Join([i \in 1..PairedCount |-> ResolvedValue(i)], Comma)
        /\ (\E i \in 1..PairedCount : UndecodablePair(i)) =>
              rs_ret.status = "TimeColumnValueError"

\* C8 witness: two values were given for a one-token library and one pair was
\* returned.
C8_Witness ==
    /\ rs_dev = "cr"
    /\ Len(rs_lib) = 1
    /\ Len(rs_vals) = 2
    /\ rs_ret.status = "ok"
    /\ rs_ret.parsed_time = rs_vals[1]
    /\ rs_vals[2] # rs_vals[1]

\* C9: cr._parse_custom_time_formats and the CR10 resolver replace a raw value by
\* its four-digit Hour/Minute form exactly when its token is '%H%M'; a value
\* paired with another token is handed on unchanged and a value without a token
\* is never decoded (it is dropped, and its length raises no error).
C9_DecodedExactlyForHourMinuteToken ==
    (ResolverCalled /\ rs_dev \in {"cr", "CR10", "CR10X"}) =>
        /\ rs_ret.status = "ok" =>
              /\ Len(rs_ret.found_time_values) <= Len(rs_lib)
              /\ \A i \in 1..Len(rs_ret.found_time_values) :
                    /\ rs_lib[i] = TokHM =>
                          rs_ret.found_time_values[i] = ZeroFilled(rs_vals[i])
                    /\ rs_lib[i] # TokHM => rs_ret.found_time_values[i] = rs_vals[i]
        /\ rs_ret.status # "ok" => \E i \in 1..PairedCount : UndecodablePair(i)

\* C9 witness: the CR10 resolver decoded the '5' paired with '%H%M' and handed on
\* the '5' paired with '%H'.
C9_Witness ==
    /\ rs_dev = "CR10"
    /\ rs_lib = <<TokHM, TokH>>
    /\ rs_vals = << <<"5">>, <<"5">> >>
    /\ rs_ret.status = "ok"
    /\ rs_ret.found_time_values = << <<"0", "0", "0", "5">>, <<"5">> >>

EmptyResolverInput == Len(rs_lib) = 0 \/ Len(rs_vals) = 0

ReturnedTwoEmptyStrings ==
    rs_ret.status = "ok" /\ rs_ret.parsed_time_format = <<>> /\ rs_ret.parsed_time = <<>>

\* C10 as stated: with an empty library or no raw value every resolver, the
\* CR1000 one included, returns two empty strings and raises no error.
C10_EmptyInputEveryResolver ==
    (ResolverCalled /\ EmptyResolverInput) => ReturnedTwoEmptyStrings

\* C10 amended: with an empty library or no raw value the generic resolvers
\* (cr._parse_custom_time_formats, CRGeneric) and the CR10 and CR10X resolvers
\* return two empty strings and raise no error; the CR1000 resolver, whose
\* library is never empty, raises IndexError when no raw value is given.
C10_EmptyInput ==
    (ResolverCalled /\ EmptyResolverInput) =>
        IF rs_dev = "CR1000" THEN rs_ret.status = "IndexError" /\ Len(rs_vals) = 0
        ELSE ReturnedTwoEmptyStrings

\* C10 witness: the CR1000 resolver was called without a raw value and raised
\* IndexError.
C10_Witness ==
    /\ rs_dev = "CR1000"
    /\ rs_vals = <<>>
    /\ rs_ret.status = "IndexError"

ParseTimeCalled == pt_ret.status # "none"

\* C16 as stated: cr.parse_time called with an empty time_columns list raises
\* TimeColumnValueError for every data set, the empty one included, and converts
\* no row.
C16_EmptyTimeColumnsAlwaysRaise ==
    (ParseTimeCalled /\ Len(pt_args.time_columns) = 0) =>
        /\ pt_ret.status = "TimeColumnValueError"
        /\ pt_ret.data_converted = <<>>

\* C16 amended: cr.parse_time called with an empty time_columns list converts no
\* row and raises TimeColumnValueError for every data set when time_zone names a
\* pytz time zone; the time zone is looked up first, so an unknown time zone
\* raises UnknownPytzTimeZoneError instead.
C16_EmptyTimeColumns ==
    (ParseTimeCalled /\ Len(pt_args.time_columns) = 0) =>
        /\ pt_ret.data_converted = <<>>
        /\ pt_args.time_zone \in {"UTC", "Etc/GMT-1"} =>
              pt_ret.status = "TimeColumnValueError"
        /\ pt_args.time_zone \notin {"UTC", "Etc/GMT-1"} =>
              pt_ret.status = "UnknownPytzTimeZoneError"

\* C16 witness: a data set of rows that all convert was given without time
\* columns in a known time zone and TimeColumnValueError was raised.
C16_Witness ==
    /\ Len(data) = MaxRows
    /\ \A i \in 1..Len(data) : data[i] = MkRow("str", MaxCols, "good")
    /\ pt_args.time_columns = <<>>
    /\ pt_args.time_zone = "UTC"
    /\ pt_ret.status = "TimeColumnValueError"

\* C17: the CR10/CR10X resolver (_parse_custom_time_format) raises
\* UnsupportedTimeFormatError whenever it is given more than three raw time
\* values, and parses no prefix of them.
C17_MoreThanThreeValuesRaise ==
    (/\ ResolverCalled
     /\ rs_dev \in {"CR10", "CR10X", "device.CR10X"}
     /\ Len(rs_vals) > 3) =>
        rs_ret.status = "UnsupportedTimeFormatError"

(***************************************************************************)
(* Claims about cr._parse_time_values, checked under SpecTV.               *)
(***************************************************************************)
ParseTimeValuesCalled == tv_ret # TimeNotCalled

\* minutes of the wall clock of dt since the start of the calendar
WallClockMinutes(dt) ==
    (ToOrdinal(dt.year, dt.month, dt.day) * 24 + dt.hour) * 60 + dt.minute

\* the instant an aware datetime denotes, in minutes and seconds
Instant(dt) == <<WallClockMinutes(dt) - dt.utcoffset, dt.second>>

\* what datetime.strptime makes of the arguments of the call
ParsedOfCall ==
    LET info == _parse_custom_time_formats(tv_args.time_format_args_library,
                                           tv_args.time_values)
    IN  IF info.status # "ok" THEN [status |-> info.status, dt |-> NoDatetime]
        ELSE strptime(info.parsed_time, info.parsed_time_format)

\* C11: called with ignore_parsing_error=True, cr._parse_time_values returns a
\* datetime and raises nothing, whatever makes the values unparseable, an
\* Hour/Minute value that cannot be decoded included.
C11_IgnoredErrorsNeverRaise ==
    (ParseTimeValuesCalled /\ tv_args.ignore_parsing_error) => tv_ret.status = "ok"

\* C12 as stated: the epoch fallback (parse failure, ignore_parsing_error=True,
\* to_utc=False) returns the wall clock 1970-01-01T00:00:00 carrying the offset of
\* the configured time zone, for every configured time zone.
C12_EpochWallClockInEveryZone ==
    (/\ ParseTimeValuesCalled
     /\ tv_args.ignore_parsing_error
     /\ ~tv_args.to_utc
     /\ ParsedOfCall.status = "ValueError") =>
        /\ tv_ret.status = "ok"
        /\ WallClockMinutes(tv_ret.dt) = WallClockMinutes(Datetime(1970, 1, 1, 0, 0, 0))
        /\ tv_ret.dt.second = 0
        /\ tv_ret.dt.aware
        /\ tv_ret.dt.utcoffset = ZoneOffsets[tv_args.time_zone]

\* C12 amended: the epoch fallback returns the instant 1970-01-01T00:00:00 UTC
\* expressed in the configured time zone: an aware datetime with the offset of the
\* zone whose wall clock is 1970-01-01T00:00:00 plus that offset, hence
\* 1970-01-01T00:00:00 itself only in a zone of offset zero.
C12_EpochInstantInZone ==
    (/\ ParseTimeValuesCalled
     /\ tv_args.ignore_parsing_error
     /\ ~tv_args.to_utc
     /\ ParsedOfCall.status = "ValueError") =>
        /\ tv_ret.status = "ok"
        /\ tv_ret.dt.aware
        /\ tv_ret.dt.utcoffset = ZoneOffsets[tv_args.time_zone]
        /\ tv_ret.dt.tz = tv_args.time_zone
        /\ WallClockMinutes(tv_ret.dt)
              = WallClockMinutes(Datetime(1970, 1, 1, 0, 0, 0))
                + ZoneOffsets[tv_args.time_zone]
        /\ tv_ret.dt.second = 0

\* C12 witness: the fallback was taken in Etc/GMT-1 and returned 01:00 +01:00.
C12_Witness ==
    /\ tv_args.time_zone = "Etc/GMT-1"
    /\ tv_args.ignore_parsing_error
    /\ ~tv_args.to_utc
    /\ tv_args.time_format_args_library = <<TokY>>
    /\ tv_args.time_values = << <<"9", "4", "5">> >>
    /\ tv_ret.status = "ok"
    /\ tv_ret.dt.year = 1970
    /\ tv_ret.dt.hour = 1
    /\ tv_ret.dt.utcoffset = 60

\* C13: with an empty format library or without raw time values
\* cr._parse_time_values raises nothing and returns 1900-01-01T00:00:00 of the
\* configured time zone, whatever the other argument holds: that instant, and with
\* to_utc=False that wall clock carrying the offset of the zone.
C13_EmptyInputSentinel ==
    (/\ ParseTimeValuesCalled
     /\ (Len(tv_args.time_format_args_library) = 0 \/ Len(tv_args.time_values) = 0)) =>
        /\ tv_ret.status = "ok"
        /\ tv_ret.dt.aware
        /\ Instant(tv_ret.dt)
              = <<WallClockMinutes(Datetime(1900, 1, 1, 0, 0, 0))
                  - ZoneOffsets[tv_args.time_zone], 0>>
        /\ ~tv_args.to_utc =>
              /\ WallClockMinutes(tv_ret.dt) = WallClockMinutes(Datetime(1900, 1, 1, 0, 0, 0))
              /\ tv_ret.dt.year = 1900 /\ tv_ret.dt.month = 1 /\ tv_ret.dt.day = 1
              /\ tv_ret.dt.utcoffset = ZoneOffsets[tv_args.time_zone]
              /\ tv_ret.dt.tz = tv_args.time_zone

\* C13 witness: values were given with an empty library in Etc/GMT-1 and
\* 1900-01-01T00:00:00+01:00 was returned.
C13_Witness ==
    /\ tv_args.time_zone = "Etc/GMT-1"
    /\ tv_args.time_format_args_library = <<>>
    /\ Len(tv_args.time_values) = MaxVals
    /\ ~tv_args.to_utc
    /\ tv_ret.status = "ok"
    /\ tv_ret.dt.year = 1900
    /\ tv_ret.dt.hour = 0
    /\ tv_ret.dt.utcoffset = 60

\* a '%z' token is paired with a value
OffsetTokenPaired ==
    \E i \in 1..Len(tv_args.time_format_args_library) :
        /\ i <= Len(tv_args.time_values)
        /\ tv_args.time_format_args_library[i] = TokZ

\* the offset, in minutes, written in the value paired with '%z'
OffsetInInput ==
    LET i == CHOOSE k \in 1..Len(tv_args.time_format_args_library) :
                 tv_args.time_format_args_library[k] = TokZ
        z == tv_args.time_values[i]
    IN  (IF z[1] = "-" THEN -1 ELSE 1) * (60 * ToInt(SubSeq(z, 2, 3)) + ToInt(SubSeq(z, 4, 5)))

\* C14 as stated: when a '%z' token is in the library and the value parses,
\* cr._parse_time_values raises nothing and the result denotes the instant of the
\* parsed wall clock at the parsed offset; with to_utc=False it is the parsed
\* datetime itself, carrying the offset of the input and not that of the
\* configured time zone, whichever zone is configured.
C14_ParsedOffsetKept ==
    (ParseTimeValuesCalled /\ OffsetTokenPaired /\ ParsedOfCall.status = "ok") =>
        /\ tv_ret.status = "ok"
        /\ tv_ret.dt.aware
        /\ Instant(tv_ret.dt)
              = <<WallClockMinutes(ParsedOfCall.dt) - OffsetInInput, ParsedOfCall.dt.second>>
        /\ ~tv_args.to_utc =>
              /\ tv_ret.dt = ParsedOfCall.dt
              /\ tv_ret.dt.utcoffset = OffsetInInput

\* the conversion to UTC is asked for and the parsed instant lies before
\* 0001-01-01T00:00:00 UTC or after 9999-12-31T23:59:59 UTC
ParsedInstantOutOfRange == tv_args.to_utc /\ ~InDatetimeRange(UtcClock(ParsedOfCall.dt))

\* C14 amended: when a '%z' token is in the library and the value parses,
\* cr._parse_time_values keeps the parsed offset and raises nothing, as stated,
\* unless to_utc=True and the parsed instant is outside the range of datetime
\* in UTC; then the conversion to UTC raises OverflowError.
C14_ParsedOffsetKeptWithinRange ==
    (ParseTimeValuesCalled /\ OffsetTokenPaired /\ ParsedOfCall.status = "ok") =>
        IF ParsedInstantOutOfRange THEN tv_ret.status = "OverflowError"
        ELSE /\ tv_ret.status = "ok"
             /\ tv_ret.dt.aware
             /\ Instant(tv_ret.dt)
                   = <<WallClockMinutes(ParsedOfCall.dt) - OffsetInInput,
                       ParsedOfCall.dt.second>>
             /\ ~tv_args.to_utc =>
                   /\ tv_ret.dt = ParsedOfCall.dt
                   /\ tv_ret.dt.utcoffset = OffsetInInput

\* C14 witness: '2016,+0100' was parsed with UTC configured and the result is
\* 2016-01-01T00:00:00+01:00.
C14_Witness ==
    /\ tv_args.time_zone = "UTC"
    /\ tv_args.time_format_args_library = <<TokY, TokZ>>
    /\ tv_args.time_values = << <<"2", "0", "1", "6">>, <<"+", "0", "1", "0", "0">> >>
    /\ ~tv_args.to_utc
    /\ tv_ret.status = "ok"
    /\ tv_ret.dt.year = 2016
    /\ tv_ret.dt.hour = 0
    /\ tv_ret.dt.utcoffset = 60

\* C15: whenever cr._parse_time_values returns with to_utc=True the result has UTC
\* offset zero and denotes the instant of the result of the same call with
\* to_utc=False, and converting it to UTC once more leaves it unchanged.
C15_ToUtcSameInstantAndIdempotent ==
    (tv_args.to_utc /\ tv_ret.status = "ok") =>
        /\ tv_ret.dt.aware
        /\ tv_ret.dt.utcoffset = 0
        /\ tv_local # TimeNotCalled =>
              /\ tv_local.status = "ok"
              /\ Instant(tv_local.dt) = Instant(tv_ret.dt)
        /\ tv_again # TimeNotCalled => tv_again = TimeReturned(tv_ret.dt)

\* C15 witness: a call in Etc/GMT-1 returned in UTC, the same call with
\* to_utc=False returned another wall clock, and the second conversion was made.
C15_Witness ==
    /\ tv_args.to_utc
    /\ tv_args.time_zone = "Etc/GMT-1"
    /\ tv_ret.status = "ok"
    /\ tv_local.status = "ok"
    /\ tv_local.dt.utcoffset = 60
    /\ WallClockMinutes(tv_local.dt) = WallClockMinutes(tv_ret.dt) + 60
    /\ tv_again = TimeReturned(tv_ret.dt)

(***************************************************************************)
(* Claims about cr.export_to_csv and cr.read_table_data, checked under     *)
(* SpecCSV and SpecHD.                                                     *)
(***************************************************************************)
\* list(row.values()) of every row, as strings
ValuesOf(rows) == [k \in 1..Len(rows) |-> [j \in 1..Len(rows[k]) |-> rows[k][j].value.str]]

ExportedThenRead == Len(csv_log) = 1 /\ csv_read.status = "ok"

\* C18: a DataSet of string values written with export_to_csv to a new file
\* and read back with read_table_data comes back with the same number of
\* rows, each row with the same string values in the same order, whether it
\* was keyed by names or by indices.
C18_RoundTripKeepsValues ==
    ExportedThenRead =>
        /\ Len(csv_read.rows) = Len(csv_data)
        /\ ValuesOf(csv_read.rows) = ValuesOf(csv_data)

\* the lines a file holds from position i of its text, which is cut after
\* every line feed
RECURSIVE LinesHeld(_, _)
LinesHeld(text, i) ==
    IF i > Len(text) THEN <<>>
    ELSE LET feeds == {p \in i..Len(text) : text[p] = Newline}
             end == IF feeds = {} THEN Len(text) + 1
                    ELSE CHOOSE p \in feeds : \A q \in feeds : p <= q
         IN  <<SubSeq(text, i, end - 1)>> \o LinesHeld(text, end + 1)

AllCallsExportHeader ==
    /\ Len(csv_log) > 0
    /\ \A c \in 1..Len(csv_log) : csv_log[c].export_header

Occurrences(lines, line) == Cardinality({i \in 1..Len(lines) : lines[i] = line})

HeaderFirstAndOnce(lines, header) == lines[1] = header /\ Occurrences(lines, header) = 1

\* C19: after any sequence of export_to_csv calls with export_header=True on
\* one output path, whatever the mode of each call and whatever the file held
\* before, a file that contains any line starts with the header line and
\* holds the header line exactly once.
C19_HeaderFirstAndOnce ==
    (AllCallsExportHeader /\ Len(csv_data) > 0 /\ Len(LinesHeld(csv_file.text, 1)) > 0)
        => HeaderFirstAndOnce(LinesHeld(csv_file.text, 1), HeaderLine(csv_data))

(***************************************************************************)
(* Claims about cr.filter_mixed_array_data, checked under SpecFL.          *)
(***************************************************************************)
FilteredWithoutIds == fl_ret.status = "ok" /\ fl_ids = <<>>

HasColumns(row) == Len(row) > 0

StartsWith(row, array_id) == HasColumns(row) /\ row[1].value = array_id

RowsOfArray(rows, array_id) == SelectSeq(rows, LAMBDA row : StartsWith(row, array_id))

RECURSIVE TotalRows(_)
TotalRows(groups) ==
    IF Len(groups) = 0 THEN 0 ELSE Len(groups[1].rows) + TotalRows(Tail(groups))

\* every array id keys one group, and the group holds the rows of the input
\* that start with that array id, in their input order
GroupsAreTheArrays(groups, rows) ==
    /\ \A g, h \in 1..Len(groups) : groups[g].array_id = groups[h].array_id => g = h
    /\ \A g \in 1..Len(groups) :
          /\ Len(groups[g].rows) > 0
          /\ groups[g].rows = RowsOfArray(rows, groups[g].array_id)

\* every one of the given rows is in the group keyed by its first column
EveryRowGrouped(groups, rows) ==
    \A i \in 1..Len(rows) :
        /\ HasColumns(rows[i])
        /\ \E g \in 1..Len(groups) : groups[g].array_id = rows[i][1].value

\* C20 as stated: without array ids the groups partition the input: every
\* input row is in exactly one group, the one keyed by its first column, rows
\* keep their input order inside a group, and the groups hold as many rows
\* as the input.
C20_GroupsPartitionInput ==
    FilteredWithoutIds =>
        /\ GroupsAreTheArrays(fl_ret.groups, fl_data)
        /\ EveryRowGrouped(fl_ret.groups, fl_data)
        /\ TotalRows(fl_ret.groups) = Len(fl_data)

\* C20: without array ids the groups partition the input rows that have at
\* least one column: each of them is in exactly one group, the one keyed by
\* its first column, rows keep their input order inside a group, and the
\* groups hold as many rows as the input has rows with columns; a row
\* without columns is in no group.
C20_GroupsPartitionRowsWithColumns ==
    FilteredWithoutIds =>
        /\ GroupsAreTheArrays(fl_ret.groups, fl_data)
        /\ EveryRowGrouped(fl_ret.groups, SelectSeq(fl_data, HasColumns))
        /\ TotalRows(fl_ret.groups) = Len(SelectSeq(fl_data, HasColumns))
        /\ \A g \in 1..Len(fl_ret.groups) :
              \A k \in 1..Len(fl_ret.groups[g].rows) : HasColumns(fl_ret.groups[g].rows[k])

\* a filtered input with a row without columns and two different rows of one
\* array
C20_Witness ==
    /\ FilteredWithoutIds
    /\ \E i \in 1..Len(fl_data) : ~HasColumns(fl_data[i])
    /\ Len(fl_ret.groups) = 1
    /\ Len(fl_ret.groups[1].rows) = 2
    /\ fl_ret.groups[1].rows[1] # fl_ret.groups[1].rows[2]

(***************************************************************************)
(* Claims about the mixed-array readers, checked under SpecFF and SpecAI.  *)
(***************************************************************************)
MixedRead == ma_mixed.status = "ok"

\* the token written to the file (what follows the array id, without the
\* line end), and the token read from it (the second value of the only row;
\* an empty token is read as an empty value)
TokenWritten ==
    SelectSeq(SubSeq(ma_file.text, 5, Len(ma_file.text)), LAMBDA c : c \notin {Newline, "\r"})

TokenRead == ma_mixed.rows[1][2].value.str

\* a single '0' put in front of the leading point, nothing else changed
ZeroInserted(token) ==
    IF str_startswith(token, <<".">>) THEN <<"0">> \o token
    ELSE IF str_startswith(token, <<"-", ".">>) THEN <<"-", "0">> \o Tail(token)
    ELSE token

\* C28: with fix_floats a token beginning with '.' or '-.' is yielded with a
\* single '0' in front of its leading point and is otherwise unchanged; every
\* other token, and every token when fix_floats is off, is yielded unchanged.
C28_OnlyLeadingPointRepaired ==
    MixedRead => TokenRead = (IF ma_fix THEN ZeroInserted(TokenWritten) ELSE TokenWritten)

SplitRead == ma_split.status = "ok"

\* the lookup table gives a non-empty name to every array id of the rows
NamesEveryArrayId(array_id_names, rows) ==
    \A k \in 1..Len(rows) :
        HasColumns(rows[k]) =>
            \E i \in 1..Len(array_id_names) :
                /\ array_id_names[i].array_id = rows[k][1].value
                /\ Len(array_id_names[i].name.str) > 0

\* C21: when the lookup table names every array id of the file, the groups
\* of read_array_ids_data are keyed by names of the table and hold together
\* as many rows as read_mixed_array_data returns for the file.
C21_RenamingKeepsEveryRow ==
    (MixedRead /\ SplitRead /\ NamesEveryArrayId(ma_names, ma_mixed.rows)) =>
        /\ \A g \in 1..Len(ma_split.groups) :
              \E i \in 1..Len(ma_names) : ma_names[i].name = ma_split.groups[g].array_id
        /\ TotalRows(ma_split.groups) = Len(ma_mixed.rows)

(***************************************************************************)
(* Claims about cr.export_array_ids_to_csv, checked under SpecEX.          *)
(***************************************************************************)
ExportArrayIdsCalled == ex_ret.status # "none"

\* the export information is missing (None or empty) or has no file path
Insufficient(info) == info.kind \in {"None", "empty"} \/ info.file_path = ""

\* C22 as stated: an empty array_ids_info raises ArrayIdsInfoValueError, and
\* an array id of array_ids_info with missing export information or without
\* file_path raises ArrayIdsExportInfoError, whatever the data.
C22_InsufficientInfoAlwaysRaises ==
    ExportArrayIdsCalled =>
        /\ Len(ex_info) = 0 => ex_ret.status = "ArrayIdsInfoValueError"
        /\ (\E i \in 1..Len(ex_info) : Insufficient(ex_info[i].info))
               => ex_ret.status = "ArrayIdsExportInfoError"

\* an array id of array_ids_info that has rows in data and insufficient
\* export information
InsufficientForData ==
    \E i \in 1..Len(ex_info) :
        /\ Insufficient(ex_info[i].info)
        /\ HasGroup(ex_data, ex_info[i].array_id)

\* C22: an empty array_ids_info raises ArrayIdsInfoValueError; otherwise
\* ArrayIdsExportInfoError is raised exactly when array_ids_info holds an
\* array id that occurs in data and whose export information is missing or
\* has no file_path.  Export information of an array id that does not occur
\* in data is not examined.
C22_InsufficientInfoOfExportedIdRaises ==
    ExportArrayIdsCalled =>
        /\ Len(ex_info) = 0 => ex_ret.status = "ArrayIdsInfoValueError"
        /\ (Len(ex_info) > 0 /\ InsufficientForData) => ex_ret.status = "ArrayIdsExportInfoError"
        /\ (Len(ex_info) > 0 /\ ~InsufficientForData) => ex_ret.status = "ok"

\* the call raised for the second array of the data after the first array was
\* written to its file
C22_Witness ==
    /\ ex_ret.status = "ArrayIdsExportInfoError"
    /\ Len(ex_data) = 2
    /\ \E path \in Paths : ex_ret.files[path].exists

(***************************************************************************)
(* Claims about cr.update_column_names, checked under SpecUC.              *)
(***************************************************************************)
SplitByRowLength == uc_ret.status = "ok" /\ uc_flags = <<TRUE, TRUE>>

\* list(row.values())
Values(row) == [j \in 1..Len(row) |-> row[j].value]

MatchingRows == SelectSeq(uc_data, LAMBDA row : Len(row) = Len(uc_names))

OtherRows == SelectSeq(uc_data, LAMBDA row : Len(row) # Len(uc_names))

\* C23 as stated: with match_row_lengths and get_mismatched_row_lengths the
\* input rows are split into two outputs: the rows with len(column_names)
\* columns are in the first, with exactly the keys column_names in the given
\* order and their values unchanged in order; every other row is unchanged in
\* the second.
C23_SplitRenamesEveryMatchingRow ==
    SplitByRowLength =>
        /\ uc_ret.result.data_mismatched_row_lengths = OtherRows
        /\ Len(uc_ret.result.data_updated_column_names) = Len(MatchingRows)
        /\ \A k \in 1..Len(MatchingRows) :
              /\ Keys(uc_ret.result.data_updated_column_names[k]) = uc_names
              /\ Values(uc_ret.result.data_updated_column_names[k]) = Values(MatchingRows[k])

\* the column names without their repetitions, in the order of first occurrence
RECURSIVE WithoutRepetitions(_)
WithoutRepetitions(names) ==
    IF Len(names) = 0 THEN <<>>
    ELSE LET before == WithoutRepetitions(SubSeq(names, 1, Len(names) - 1))
         IN  IF InList(names[Len(names)], before) THEN before
             ELSE Append(before, names[Len(names)])

LastIndexOf(names, name) ==
    CHOOSE i \in 1..Len(names) : names[i] = name /\ \A j \in (i + 1)..Len(names) : names[j] # name

\* C23: the split holds every input row exactly once, every row of another
\* length unchanged in the second output and every row of len(column_names)
\* columns in the first; such a row has one key for every distinct name of
\* column_names, in the order of first occurrence, and under a name the value
\* of the last column given that name.  With names that do not repeat these
\* are exactly the keys column_names in the given order and the values of the
\* row unchanged in order.
C23_SplitRenamesWithDistinctNames ==
    SplitByRowLength =>
        /\ uc_ret.result.data_mismatched_row_lengths = OtherRows
        /\ Len(uc_ret.result.data_updated_column_names) = Len(MatchingRows)
        /\ \A k \in 1..Len(MatchingRows) :
              /\ Keys(uc_ret.result.data_updated_column_names[k]) = WithoutRepetitions(uc_names)
              /\ \A j \in 1..Len(uc_ret.result.data_updated_column_names[k]) :
                    uc_ret.result.data_updated_column_names[k][j].value
                        = MatchingRows[k][LastIndexOf(uc_names,
                              uc_ret.result.data_updated_column_names[k][j].name)].value
              /\ WithoutRepetitions(uc_names) = uc_names =>
                    /\ Keys(uc_ret.result.data_updated_column_names[k]) = uc_names
                    /\ Values(uc_ret.result.data_updated_column_names[k]) = Values(MatchingRows[k])

\* a split with a renamed row of two columns and a row of another length
C23_Witness ==
    /\ SplitByRowLength
    /\ Len(uc_names) = 2
    /\ WithoutRepetitions(uc_names) = uc_names
    /\ Len(uc_ret.result.data_updated_column_names) = 1
    /\ Len(uc_ret.result.data_mismatched_row_lengths) = 1

(***************************************************************************)
(* Claims about cr.extract_columns_data, checked under SpecEC.             *)
(***************************************************************************)
ExtractCalled == ec_ret.status # "none"

\* from_timestamp and/or to_timestamp is passed
RangeAsked == ec_range.has_from \/ ec_range.has_to

TimeColumnProvided == ec_range.time_column # None

TimeColumnInEveryRow == \A k \in 1..Len(ec_data) : Contains(ec_data[k], ec_range.time_column)

\* from_timestamp <= t <= to_timestamp, as instants; without from_timestamp
\* the lower bound is the UNIX epoch, without to_timestamp the upper bound is
\* what the clock shows
InRange(row, clock) ==
    /\ DatetimeGE(GetItem(row, ec_range.time_column).dt, FromTimestamp(ec_range))
    /\ DatetimeGE(ToTimestamp(ec_range, clock), GetItem(row, ec_range.time_column).dt)

Reduced(rows) == [k \in 1..Len(rows) |-> ExtractedRow(rows[k], ec_names)]

\* C24: called with from_timestamp and/or to_timestamp and a time_column
\* that every row has (a name or an index, index 0 included),
\* extract_columns_data returns exactly the rows with
\* from_timestamp <= t <= to_timestamp, in input order, reduced to the
\* requested columns, to_timestamp being some reading of the clock when it
\* is not passed; TimeColumnValueError is raised only if time_column is
\* not provided or is missing from a row.
C24_RowsInRangeForEveryTimeColumn ==
    (ExtractCalled /\ RangeAsked) =>
        /\ (TimeColumnProvided /\ TimeColumnInEveryRow) =>
              /\ ec_ret.status = "ok"
              /\ \E clock \in ClockReadings(ec_data, ec_range) :
                    ec_ret.rows = Reduced(SelectSeq(ec_data, LAMBDA row : InRange(row, clock)))
        /\ ec_ret.status = "TimeColumnValueError" =>
              (~TimeColumnProvided \/ ~TimeColumnInEveryRow)

(***************************************************************************)
(* Claims about dataset.DataSet, checked under SpecDS.                     *)
(***************************************************************************)
\* C25: after any sequence of constructions, appends and item assignments
\* every element of the DataSet is a Row, and an append or item assignment
\* that raised TypeError left the contents as they were.
C25_OnlyRowsAndFailedOperationsChangeNothing ==
    /\ ValidRows(ds_rows)
    /\ (ds_last.status = "TypeError" /\ ds_last.op # "init") => ds_rows = ds_prev

(***************************************************************************)
(* Claims about cr.convert_time_zone, checked under SpecCT.                *)
(***************************************************************************)
ConvertReturned == ct_ret.status = "ok"

\* the instant of an aware datetime
InstantOf(dt) == UtcInstant(dt)

\* the row holds in time_column the instant of the row before, expressed in
\* the target zone, and every other column as before
SameInstantInZone(row, before) ==
    /\ Keys(row) = Keys(before)
    /\ \A j \in 1..Len(row) :
          IF row[j].name = ct_args.time_column
              THEN /\ row[j].value.kind = "datetime"
                   /\ row[j].value.dt.aware
                   /\ row[j].value.dt.tz = ct_args.to_time_zone
                   /\ row[j].value.dt.utcoffset = ZoneOffsets[ct_args.to_time_zone]
                   /\ InstantOf(row[j].value.dt) = InstantOf(before[j].value.dt)
          ELSE row[j] = before[j]

\* C26: after convert_time_zone to a valid zone the rows of the data set
\* passed in hold in time_column the same instant expressed in the target
\* zone, every other column is unchanged, and the DataSet returned has the
\* same rows in the same order.
C26_InputConvertedInPlace ==
    ConvertReturned =>
        /\ Len(ct_data) = Len(ct_before)
        /\ \A k \in 1..Len(ct_data) : SameInstantInZone(ct_data[k], ct_before[k])
        /\ ct_ret.data = ct_data

\* two rows were converted from UTC to the zone one hour east, the wall clock
\* of the first moving from 12:00 to 13:00
C26_Witness ==
    /\ ConvertReturned
    /\ ct_args.to_time_zone = "Etc/GMT-1"
    /\ Len(ct_data) = 2
    /\ GetItem(ct_before[1], ct_args.time_column).dt.hour = 12
    /\ GetItem(ct_data[1], ct_args.time_column).dt.hour = 13
    /\ GetItem(ct_data[1], ct_args.time_column).dt.utcoffset = 60

(***************************************************************************)
(* Claims about the order of time_columns, checked under SpecPO.           *)
(***************************************************************************)
BothParsed == pt_ret # ParseTimeNotCalled /\ po_ret # ParseTimeNotCalled

\* C27: parse_time pairs the format library with the time values of a row in
\* the order of the columns in the row: two calls whose time_columns have the
\* same members and the same first element return the same output (and end
\* in the same way) for the same data set.
C27_OrderOfTimeColumnsIrrelevant ==
    (BothParsed /\ SameMembersAndFirst(pt_args.time_columns, po_columns)) =>
        /\ po_ret = pt_ret
        /\ po_data = data

\* year, day of year and Hour/Minute were listed in two different orders, the
\* row holding Hour/Minute before the day of year, and both calls returned
\* the timestamp read in row order
C27_Witness ==
    /\ BothParsed
    /\ pt_ret.status = "ok"
    /\ Len(pt_args.time_columns) = 3
    /\ Members(pt_args.time_columns) = OrderKeys("str")
    /\ po_columns # pt_args.time_columns
    /\ pt_args.replace_time_column = None
    /\ <<data[1][1].name, data[1][2].name>> # <<pt_args.time_columns[1], pt_args.time_columns[2]>>
    /\ Len(data[1]) = 3
    /\ Len(po_ret.data_converted) = 1
    /\ po_ret.data_converted[1][1].value.dt.hour = 9
    /\ po_ret.data_converted[1][1].value.dt.minute = 45

(***************************************************************************)
(* Claims about CRGeneric._parse_time_values, checked under SpecGT.        *)
(***************************************************************************)
GenericCalled == gt_ret # TimeNotCalled

\* datetime.strptime rejects the joined time values under the joined formats
GenericUnparseable ==
    strptime(CRGeneric_parse_custom_time_format(gt_args.time_format_args_library,
                                                gt_args.time_values).parsed_time,
             CRGeneric_parse_custom_time_format(gt_args.time_format_args_library,
                                                gt_args.time_values).parsed_time_format).status
        = "ValueError"

\* C29: with ignore_parsing_error=True, time values that cannot be parsed
\* make CRGeneric._parse_time_values return the epoch time in the parser's
\* time zone (the same instant in UTC when to_utc is set), and no exception
\* is raised.
C29_IgnoredErrorReturnsEpoch ==
    (GenericCalled /\ gt_args.ignore_parsing_error /\ GenericUnparseable) =>
        /\ gt_ret.status = "ok"
        /\ InstantOf(gt_ret.dt) = InstantOf(fromtimestamp0(gt_args.time_zone))
        /\ gt_ret.dt.tz = IF gt_args.to_utc THEN "UTC" ELSE gt_args.time_zone

(***************************************************************************)
(* Claims about the DataSet handed to cr.export_to_csv, checked under      *)
(* SpecXD.                                                                 *)
(***************************************************************************)
\* The text of a timestamp of the data sets drawn, the second of May 2016 at
\* 12, 13 or 14 o'clock in UTC or one hour east of it: "%Y-%m-%d %H:%M:%S",
\* followed by the UTC offset when the time zone is included.
TimestampText(dt, include_time_zone) ==
    <<"2", "0", "1", "6", "-", "0", "5", "-", "0", "2", " ", "1">>
    \o (IF dt.hour = 12 THEN <<"2">> ELSE IF dt.hour = 13 THEN <<"3">> ELSE <<"4">>)
    \o <<":", "0", "0", ":", "0", "0">>
    \o (IF ~include_time_zone THEN <<>>
        ELSE IF dt.utcoffset = 60 THEN <<"+", "0", "1", "0", "0">>
        ELSE <<"+", "0", "0", "0", "0">>)

\* the line of a row of two columns: the texts of its two values with a comma
\* between them
LineOfRow(row, include_time_zone) ==
    LET cell(j) == IF row[j].value.kind = "datetime"
                       THEN TimestampText(row[j].value.dt, include_time_zone)
                   ELSE row[j].value.str
    IN  cell(1) \o <<",">> \o cell(2)

SameKeysAndValues(row, before) ==
    /\ Len(row) = Len(before)
    /\ \A j \in 1..Len(row) :
          /\ row[j].name = before[j].name
          /\ row[j].value = before[j].value
          /\ before[j].value.kind = "datetime" => row[j].value.kind = "datetime"

\* C30: export_to_csv leaves the DataSet it is given unchanged: every row has
\* the same keys and values as before the first call, datetimes still being
\* datetimes, and the last lines of the file are the lines of the original
\* rows, their timestamps formatted with the include_time_zone of the last
\* call.
C30_ExportLeavesDataSetUnchanged ==
    /\ Len(csv_data) = Len(xd_before)
    /\ \A k \in 1..Len(csv_data) : SameKeysAndValues(csv_data[k], xd_before[k])
    /\ Len(csv_log) > 0 =>
          LET lines == LinesHeld(csv_file.text, 1)
              first == Len(lines) - Len(xd_before)
          IN  /\ first >= 0
              /\ \A k \in 1..Len(xd_before) :
                    lines[first + k]
                        = LineOfRow(xd_before[k],
                                    csv_log[Len(csv_log)].include_time_zone)

\* a row with a timestamp was exported twice to the same file, without and
\* then with the time zone, and the two lines written differ
C30_Witness ==
    /\ Len(csv_log) = 2
    /\ ~csv_log[1].include_time_zone
    /\ csv_log[2].include_time_zone
    /\ csv_log[2].mode = "a+"
    /\ Len(xd_before) = 1
    /\ \E j \in 1..Len(csv_data[1]) : csv_data[1][j].value.kind = "datetime"
    /\ Len(LinesHeld(csv_file.text, 1)) >= 2
    /\ LinesHeld(csv_file.text, 1)[Len(LinesHeld(csv_file.text, 1))]
           # LinesHeld(csv_file.text, 1)[Len(LinesHeld(csv_file.text, 1)) - 1]

====
